---- MODULE Spec2Model ----
(***************************************************************************)
(* AirAware MLOps risk scoring engine.                                     *)
(*                                                                         *)
(* Models mlops/serving/model_server.py (rule-based AQI, anomaly score,    *)
(* risk tiering, make_prediction and the /predict handler) and             *)
(* mlops/models/ensemble_model.py with the detector it calls.              *)
(*                                                                         *)
(* Number representation.  Python floats are modelled by exact integers:   *)
(*   - pm25 and voc are carried in hundredths (12.05 ug/m3 is 1205);       *)
(*   - temperature, humidity, co2 and pm10 are whole units;                *)
(*   - a per-metric anomaly score is an integer count of 1/ScoreDen;       *)
(*   - a reported score is a pair <<num, den>> (the rule-based engine      *)
(*     reports thousandths, the detector reports (max - s)/(max - min)).   *)
(* round() is Python's round-half-to-even.                                 *)
(***************************************************************************)
EXTENDS Integers, Sequences, FiniteSets, TLC

VARIABLES
    pm25,          \* argument of the current calculate_aqi_from_pm25 call
    aqi,           \* its return value <<aqi, category>>, NoAqi before the call
    prev_pm25,     \* argument of the call before it
    prev_aqi,      \* return value of the call before it
    reading,       \* the reading dict being scored
    score,         \* return value of calculate_anomaly_score(reading)
    prev_reading,  \* the reading scored before it
    prev_score,    \* return value of that call
    started,       \* load_models has run
    anomaly_detector,  \* module global: "None" or "loaded"
    aqi_predictor,     \* module global: "None" or "loaded"
    ensemble_model,    \* module global / instance under test: NoModel or an EnsembleModel
    request,       \* reading of the /predict request being answered
    model_out,     \* what the trained models return for the X of this call
    results,       \* the dict returned by ensemble_model.predict or make_prediction
    response,      \* the PredictionResponse returned by /predict
    call,          \* latest make_prediction call: [reading, result]
    memo,          \* an earlier make_prediction call kept for comparison
    between,       \* calls made since memo, capped at MaxCalls
    alert_config,      \* AlertManager.alert_config['aqi_thresholds']
    alerting_service,  \* module global of model_server: "None" or "service"
    alerts,        \* payloads send_alert has posted in the current check_and_alert
    alert_outcome, \* how the current check_and_alert / process_prediction call ended
    validation_rules,  \* DataValidator.validation_rules
    validation,    \* latest validate_real_time call: [reading, is_valid, errors]
    detector,      \* an AnomalyDetector instance: [is_fitted]
    predictor,     \* an AQIPredictor instance: [is_fitted]
    model_call,    \* the call in progress on one of the two instances
    preprocessor,  \* a DataPreprocessor: [feature_names, columns_to_drop, encoders]
    frame,         \* the frame being prepared for a model: [input, output, path]
    realtime,      \* a RealtimePredictor: [models, cache]
    rt_call,       \* latest predict_single call: [reading, outcome, result]
    batch          \* latest /predict/batch call: [readings, outcomes, response]

aqiVars == <<pm25, aqi, prev_pm25, prev_aqi>>
anomalyVars == <<reading, score, prev_reading, prev_score>>
serverVars == <<started, anomaly_detector, aqi_predictor, ensemble_model,
                request, model_out, results, response>>
pureVars == <<call, memo, between>>
alertVars == <<alert_config, alerting_service, alerts, alert_outcome>>
validateVars == <<validation_rules, validation>>
modelsVars == <<detector, predictor, model_call>>
frameVars == <<preprocessor, frame>>
cacheVars == <<realtime, rt_call>>
batchVars == <<batch>>
libVars == <<modelsVars, frameVars, cacheVars, batchVars>>
vars == <<aqiVars, anomalyVars, serverVars, pureVars, alertVars, validateVars, libVars>>

-----------------------------------------------------------------------------
(* Bounds of the model                                                     *)

PmBelow == 30         \* arguments start this many hundredths below 0
PmMax == 50100        \* highest pm25 argument, hundredths
MaxStep == 1          \* largest increase between two consecutive arguments
MaxRows == 3          \* most rows in a frame X given to EnsembleModel.predict
MaxCalls == 3         \* make_prediction calls counted after a remembered one
MetricMargin == 10    \* single-metric values reach this far beyond the critical bounds
MaxCols == 3          \* most columns in a frame given to DataPreprocessor.transform
MaxCached == 2        \* entries the cache of the real-time predictor may reach
MaxBatch == 3         \* most readings in a /predict/batch request

-----------------------------------------------------------------------------
(* Arithmetic helpers                                                      *)

Min2(a, b) == IF a <= b THEN a ELSE b

Max2(a, b) == IF a >= b THEN a ELSE b

\* Python round(n / d) for n >= 0, d > 0: nearest integer, ties to even.
RoundHalfEven(n, d) ==
    LET q == n \div d
        r == n % d
    IN  IF 2 * r > d THEN q + 1
        ELSE IF 2 * r < d THEN q
        ELSE IF q % 2 = 0 THEN q ELSE q + 1

\* the empty dict
NoReading == [m \in {} |-> 0]

\* no make_prediction call yet
NoCall == [reading |-> NoReading, result |-> NoReading]

\* A score as the fraction num / den, den > 0.
Frac(n, d) == [num |-> n, den |-> d]

\* f < a / b,  f >= a / b,  f <= g   (a, b > 0)
FracLt(f, a, b) == f.num * b < a * f.den

FracGe(f, a, b) == f.num * b >= a * f.den

FracLe(f, g) == f.num * g.den <= g.num * f.den

\* np.clip(f, 0, 1)
Clip01(f) ==
    IF f.num < 0 THEN Frac(0, 1)
    ELSE IF f.num > f.den THEN Frac(1, 1)
    ELSE f

In01(f) == f.den > 0 /\ 0 <= f.num /\ f.num <= f.den

-----------------------------------------------------------------------------
(* Rule-based AQI (EPA breakpoints), pm25 in hundredths                    *)

AQI_BREAKPOINTS == <<
    [pm25_low |-> 0,     pm25_high |-> 1200,  aqi_low |-> 0,   aqi_high |-> 50,  category |-> "Good"],
    [pm25_low |-> 1210,  pm25_high |-> 3540,  aqi_low |-> 51,  aqi_high |-> 100, category |-> "Moderate"],
    [pm25_low |-> 3550,  pm25_high |-> 5540,  aqi_low |-> 101, aqi_high |-> 150, category |-> "Unhealthy for Sensitive"],
    [pm25_low |-> 5550,  pm25_high |-> 15040, aqi_low |-> 151, aqi_high |-> 200, category |-> "Unhealthy"],
    [pm25_low |-> 15050, pm25_high |-> 25040, aqi_low |-> 201, aqi_high |-> 300, category |-> "Very Unhealthy"],
    [pm25_low |-> 25050, pm25_high |-> 50040, aqi_low |-> 301, aqi_high |-> 500, category |-> "Hazardous"] >>

\* Arguments (hundredths) at which the exact interpolation is k + 1/2 with k
\* even but the IEEE double product (50 / 12.0) * pm25 lands above the half,
\* so that round() returns k + 1.  All lie in the first band.
DoubleTieUp == {108, 156, 348, 444, 540, 636, 732, 924, 972, 1116, 1164}

\* aqi = ((aqi_high - aqi_low) / (pm25_high - pm25_low)) * (pm25 - pm25_low) + aqi_low
Interpolate(bp, p) ==
    LET n == (bp.aqi_high - bp.aqi_low) * (p - bp.pm25_low)
        d == bp.pm25_high - bp.pm25_low
        q == n \div d
    IN  bp.aqi_low + (IF p \in DoubleTieUp THEN q + 1 ELSE RoundHalfEven(n, d))

\* variant: the band test excludes the upper breakpoint
calculate_aqi_from_pm25_open(p) ==
    IF p < 0 THEN <<0, "Invalid">>
    ELSE LET hits == {i \in DOMAIN AQI_BREAKPOINTS :
                        /\ AQI_BREAKPOINTS[i].pm25_low <= p
                        /\ p < AQI_BREAKPOINTS[i].pm25_high}
         IN  IF hits = {} THEN <<500, "Hazardous">>
             ELSE LET i == CHOOSE j \in hits : \A k \in hits : j <= k
                  IN  <<Interpolate(AQI_BREAKPOINTS[i], p), AQI_BREAKPOINTS[i].category>>

calculate_aqi_from_pm25(p) ==
    IF p < 0 THEN <<0, "Invalid">>
    ELSE LET hits == {i \in DOMAIN AQI_BREAKPOINTS :
                        /\ AQI_BREAKPOINTS[i].pm25_low <= p
                        /\ p <= AQI_BREAKPOINTS[i].pm25_high}
         IN  IF hits = {} THEN <<500, "Hazardous">>
             ELSE LET i == CHOOSE j \in hits : \A k \in hits : j <= k
                  IN  <<Interpolate(AQI_BREAKPOINTS[i], p), AQI_BREAKPOINTS[i].category>>


-----------------------------------------------------------------------------
(* Rule-based anomaly score                                                *)

Metrics == {"temperature", "humidity", "co2", "voc", "pm25", "pm10"}

\* voc and pm25 bounds are in hundredths, like the readings
NORMAL_RANGES == [
    temperature |-> [min |-> 15,  max |-> 35,   critical_min |-> 0,  critical_max |-> 45],
    humidity    |-> [min |-> 30,  max |-> 70,   critical_min |-> 10, critical_max |-> 90],
    co2         |-> [min |-> 350, max |-> 1000, critical_min |-> 0,  critical_max |-> 5000],
    voc         |-> [min |-> 0,   max |-> 50,   critical_min |-> 0,  critical_max |-> 300],
    pm25        |-> [min |-> 0,   max |-> 3500, critical_min |-> 0,  critical_max |-> 50000],
    pm10        |-> [min |-> 0,   max |-> 50,   critical_min |-> 0,  critical_max |-> 600] ]

\* Common denominator of every quotient the per-metric branches can form
\* (15, 10, 20, 350, 4000, 250, 46500, 550), a multiple of 1000.
ScoreDen == 32 * 3 * 125 * 7 * 11 * 31

\* reading.get(metric, default)
Get(r, metric, default) == IF metric \in DOMAIN r THEN r[metric] ELSE default

\* variant: the distance above the normal band is divided by critical_max
MetricScore_span(metric, value) ==
    LET ranges == NORMAL_RANGES[metric]
    IN  IF value < ranges.min
        THEN IF value < ranges.critical_min
             THEN ScoreDen
             ELSE Min2((ranges.min - value) * (ScoreDen \div (ranges.min - ranges.critical_min)),
                       ScoreDen)
        ELSE IF value > ranges.max
        THEN IF value > ranges.critical_max
             THEN ScoreDen
             ELSE Min2((((value - ranges.max) * (ScoreDen \div 1000)) \div ranges.critical_max) * 1000,
                       ScoreDen)
        ELSE 0

\* variant: below the normal band the distance is divided by the width of
\* the normal band
MetricScore_width(metric, value) ==
    LET ranges == NORMAL_RANGES[metric]
    IN  IF value < ranges.min
        THEN IF value < ranges.critical_min
             THEN ScoreDen
             ELSE Min2((ranges.min - value) * (ScoreDen \div (ranges.max - ranges.min)),
                       ScoreDen)
        ELSE IF value > ranges.max
        THEN IF value > ranges.critical_max
             THEN ScoreDen
             ELSE Min2((value - ranges.max) * (ScoreDen \div (ranges.critical_max - ranges.max)),
                       ScoreDen)
        ELSE 0

\* The per-metric score of one value, in units of 1/ScoreDen.
MetricScore(metric, value) ==
    LET ranges == NORMAL_RANGES[metric]
    IN  IF value < ranges.min
        THEN IF value < ranges.critical_min
             THEN ScoreDen
             ELSE Min2((ranges.min - value) * (ScoreDen \div (ranges.min - ranges.critical_min)),
                       ScoreDen)
        ELSE IF value > ranges.max
        THEN IF value > ranges.critical_max
             THEN ScoreDen
             ELSE Min2((value - ranges.max) * (ScoreDen \div (ranges.critical_max - ranges.max)),
                       ScoreDen)
        ELSE 0

RECURSIVE SumScores(_, _)
SumScores(r, ms) ==
    IF ms = {} THEN 0
    ELSE LET m == CHOOSE x \in ms : TRUE
         IN  MetricScore(m, r[m]) + SumScores(r, ms \ {m})

\* variant: the particulate boost is assigned, not added
CombinedBoost_assign(r) ==
    (IF Get(r, "pm25", 0) > 5000 /\ Get(r, "pm10", 0) > 75 THEN 10
     ELSE IF Get(r, "co2", 0) > 1000 /\ Get(r, "voc", 0) > 50 THEN 15 ELSE 0)
    + (IF Get(r, "temperature", 25) > 35 /\ Get(r, "humidity", 50) > 70 THEN 10 ELSE 0)

\* combined_boost, in hundredths
CombinedBoost(r) ==
    (IF Get(r, "co2", 0) > 1000 /\ Get(r, "voc", 0) > 50 THEN 15 ELSE 0)
    + (IF Get(r, "pm25", 0) > 5000 /\ Get(r, "pm10", 0) > 75 THEN 10 ELSE 0)
    + (IF Get(r, "temperature", 25) > 35 /\ Get(r, "humidity", 50) > 70 THEN 10 ELSE 0)

\* variant: max in place of min when capping the boosted score
FinalScore_max(r) ==
    LET present == Metrics \cap DOMAIN r
        n == Cardinality(present)
        d == IF n > 0 THEN n * ScoreDen ELSE ScoreDen
        total == SumScores(r, present)
    IN  [num |-> Max2(total + CombinedBoost(r) * (d \div 100), d), den |-> d]

\* final_score before rounding, as the fraction num / den
FinalScore(r) ==
    LET present == Metrics \cap DOMAIN r
        n == Cardinality(present)
        d == IF n > 0 THEN n * ScoreDen ELSE ScoreDen
        total == SumScores(r, present)
    IN  [num |-> Min2(total + CombinedBoost(r) * (d \div 100), d), den |-> d]

\* Returns [anomaly_score, is_anomaly, anomaly_details]; round(x, 3) gives
\* thousandths: anomaly_score is the fraction k / 1000, a detail is k.
calculate_anomaly_score(r) ==
    LET f == FinalScore(r)
    IN  [anomaly_score   |-> Frac(RoundHalfEven(f.num, f.den \div 1000), 1000),
         is_anomaly      |-> f.num >= 3 * (f.den \div 10),
         anomaly_details |-> [m \in Metrics \cap DOMAIN r |->
                                 RoundHalfEven(MetricScore(m, r[m]), ScoreDen \div 1000)]]

-----------------------------------------------------------------------------
(* Risk tiering and the rule-based engine                                  *)

calculate_risk_level(predicted_aqi, anomaly_score) ==
    LET base == IF predicted_aqi <= 50 THEN 0
                ELSE IF predicted_aqi <= 100 THEN 1
                ELSE IF predicted_aqi <= 150 THEN 2
                ELSE IF predicted_aqi <= 200 THEN 3
                ELSE IF predicted_aqi <= 300 THEN 4
                ELSE 5
        aqi_risk == IF FracGe(anomaly_score, 7, 10) THEN base + 2
                    ELSE IF FracGe(anomaly_score, 4, 10) THEN base + 1
                    ELSE base
    IN  IF aqi_risk <= 1 THEN "LOW"
        ELSE IF aqi_risk <= 2 THEN "MEDIUM"
        ELSE IF aqi_risk <= 3 THEN "HIGH"
        ELSE "CRITICAL"

\* variant: the anomaly score accumulates over the calls made so far
make_prediction_carry(r) ==
    LET a == calculate_aqi_from_pm25(Get(r, "pm25", 0))
        s == calculate_anomaly_score(r)
        carried == IF call = NoCall THEN s.anomaly_score
                   ELSE Frac(Min2(s.anomaly_score.num + call.result.anomaly_score.num, 1000),
                             1000)
    IN  [predicted_aqi   |-> a[1],
         aqi_category    |-> a[2],
         anomaly_score   |-> carried,
         is_anomaly      |-> s.is_anomaly,
         risk_level      |-> calculate_risk_level(a[1], carried),
         anomaly_details |-> s.anomaly_details]

make_prediction(r) ==
    LET a == calculate_aqi_from_pm25(Get(r, "pm25", 0))
        s == calculate_anomaly_score(r)
    IN  [predicted_aqi   |-> a[1],
         aqi_category    |-> a[2],
         anomaly_score   |-> s.anomaly_score,
         is_anomaly      |-> s.is_anomaly,
         risk_level      |-> calculate_risk_level(a[1], s.anomaly_score),
         anomaly_details |-> s.anomaly_details]

-----------------------------------------------------------------------------
(* Trained models: AnomalyDetector and EnsembleModel                       *)
(* The fitted estimators are opaque; a record "out" carries what they      *)
(* return for the frame X: out.scores = score_samples(X), out.labels =     *)
(* IsolationForest.predict(X), out.aqi_pred = XGBRegressor.predict(X).     *)

SeqMin(q) == CHOOSE x \in {q[i] : i \in DOMAIN q} : \A i \in DOMAIN q : x <= q[i]

SeqMax(q) == CHOOSE x \in {q[i] : i \in DOMAIN q} : \A i \in DOMAIN q : x >= q[i]

\* a float returned by a fitted estimator: a finite number, NaN, +Inf or -Inf
Finite(v) == [kind |-> "finite", v |-> v]

NaN == [kind |-> "nan", v |-> 0]

PosInf == [kind |-> "posinf", v |-> 0]

NegInf == [kind |-> "neginf", v |-> 0]

\* np.min(scores) and np.max(scores): NaN as soon as one row is NaN
np_min(scores) ==
    IF \E i \in DOMAIN scores : scores[i].kind = "nan" THEN NaN
    ELSE Finite(SeqMin([i \in DOMAIN scores |-> scores[i].v]))

np_max(scores) ==
    IF \E i \in DOMAIN scores : scores[i].kind = "nan" THEN NaN
    ELSE Finite(SeqMax([i \in DOMAIN scores |-> scores[i].v]))

\* max_score - min_score
Minus(x, y) == IF x.kind = "nan" \/ y.kind = "nan" THEN NaN ELSE Finite(x.v - y.v)

\* variant: the normalized score is not reversed (the "1 -" is missing)
predict_scores_unreversed(scores) ==
    LET min_score == np_min(scores)
        max_score == np_max(scores)
        denom == Minus(max_score, min_score)
    IN  IF denom = Finite(0) \/ denom.kind = "nan"
        THEN [i \in DOMAIN scores |-> Frac(0, 1)]
        ELSE [i \in DOMAIN scores |-> Frac(scores[i].v - min_score.v, denom.v)]

\* variant: a degenerate range gives np.ones_like(scores)
predict_scores_ones(scores) ==
    LET min_score == np_min(scores)
        max_score == np_max(scores)
        denom == Minus(max_score, min_score)
    IN  IF denom = Finite(0) \/ denom.kind = "nan"
        THEN [i \in DOMAIN scores |-> Frac(1, 1)]
        ELSE [i \in DOMAIN scores |-> Frac(max_score.v - scores[i].v, denom.v)]

\* AnomalyDetector.predict_scores on the raw scores of a frame (each Finite
\* or NaN): 1 - (scores - min_score) / denom = (max_score - scores) / denom
predict_scores(scores) ==
    LET min_score == np_min(scores)
        max_score == np_max(scores)
        denom == Minus(max_score, min_score)
    IN  IF denom = Finite(0) \/ denom.kind = "nan"
        THEN [i \in DOMAIN scores |-> Frac(0, 1)]
        ELSE [i \in DOMAIN scores |-> Frac(max_score.v - scores[i].v, denom.v)]

\* AnomalyDetector.detect_anomalies: one row of results per row of X
detect_anomalies(out) ==
    LET normalized == predict_scores(out.scores)
    IN  [i \in DOMAIN out.scores |->
            [is_anomaly    |-> out.labels[i] = -1,
             anomaly_score |-> normalized[i]]]

\* np.nan_to_num(x, nan=0.0, posinf=500.0, neginf=0.0)
nan_to_num(x) ==
    IF x.kind = "nan" THEN 0
    ELSE IF x.kind = "posinf" THEN 500
    ELSE IF x.kind = "neginf" THEN 0
    ELSE x.v

\* variant: only the upper bound is applied
Clip_upper(x, lo, hi) == Min2(x, hi)

\* np.clip(x, lo, hi)
Clip(x, lo, hi) == Max2(lo, Min2(x, hi))

\* how a method call on a model instance ends
Returned(value) == [outcome |-> "returned", value |-> value]

\* raise ValueError("Model not fitted. Call fit() first.")
NotFitted == [outcome |-> "ValueError", value |-> <<>>]

\* variant: predict does not test is_fitted
AnomalyDetector_predict_unguarded(self, out) == Returned(out.labels)

\* AnomalyDetector.predict(X)
AnomalyDetector_predict(self, out) ==
    IF ~self.is_fitted THEN NotFitted ELSE Returned(out.labels)

\* AnomalyDetector.predict_scores(X)
AnomalyDetector_predict_scores(self, out) ==
    IF ~self.is_fitted THEN NotFitted ELSE Returned(predict_scores(out.scores))

\* AnomalyDetector.detect_anomalies(X): predict_scores, then predict, then
\* the frame of results
AnomalyDetector_detect_anomalies(self, out) ==
    LET scores == AnomalyDetector_predict_scores(self, out)
        predictions == AnomalyDetector_predict(self, out)
    IN  IF scores.outcome # "returned" THEN scores
        ELSE IF predictions.outcome # "returned" THEN predictions
        ELSE Returned(detect_anomalies(out))

\* AQIPredictor.predict(X)
AQIPredictor_predict(self, out) ==
    IF ~self.is_fitted THEN NotFitted ELSE Returned(out.aqi_pred)

\* AQIPredictor.evaluate(X, y): the metrics are computed from predict(X)
AQIPredictor_evaluate(self, out) ==
    LET predictions == AQIPredictor_predict(self, out)
    IN  IF predictions.outcome # "returned" THEN predictions
        ELSE Returned([metrics_of |-> predictions.value])

\* fit(X): the estimator's fit may raise, which leaves the flag as it was
fit(self, fitted) == IF fitted THEN [self EXCEPT !.is_fitted = TRUE] ELSE self

\* load(path), a classmethod: a new instance with is_fitted = True
load == [is_fitted |-> TRUE]

\* variant: the second tier is named as in calculate_risk_level
classify_risk_medium(risk_score) ==
    IF FracLt(risk_score, 3, 10) THEN "LOW"
    ELSE IF FracLt(risk_score, 6, 10) THEN "MEDIUM"
    ELSE IF FracLt(risk_score, 8, 10) THEN "HIGH"
    ELSE "CRITICAL"

classify_risk(risk_score) ==
    IF FracLt(risk_score, 3, 10) THEN "LOW"
    ELSE IF FracLt(risk_score, 6, 10) THEN "MODERATE"
    ELSE IF FracLt(risk_score, 8, 10) THEN "HIGH"
    ELSE "CRITICAL"

\* variant: no safety guard on a flagged row with a low score
EnsembleAnomaly_noguard(ens, out) ==
    IF ens.anomaly_detector
    THEN LET row == detect_anomalies(out)[1]
         IN  [anomaly_score |-> Clip01(row.anomaly_score),
              is_anomaly    |-> row.is_anomaly]
    ELSE NoReading

\* the anomaly part of EnsembleModel.predict (empty without a detector)
EnsembleAnomaly(ens, out) ==
    IF ens.anomaly_detector
    THEN LET row == detect_anomalies(out)[1]
             sc == Clip01(row.anomaly_score)
         IN  [anomaly_score |-> sc,
              is_anomaly    |-> IF row.is_anomaly /\ FracLt(sc, 3, 10) THEN FALSE
                                ELSE row.is_anomaly]
    ELSE NoReading

\* variant: the regressor's value is not clipped to [0, 500]
EnsembleAqi_noclip(ens, out) ==
    IF ens.aqi_predictor
    THEN [predicted_aqi |-> nan_to_num(out.aqi_pred[1])]
    ELSE NoReading

\* the AQI part of EnsembleModel.predict (empty without a predictor)
EnsembleAqi(ens, out) ==
    IF ens.aqi_predictor
    THEN [predicted_aqi |-> Clip(nan_to_num(out.aqi_pred[1]), 0, 500)]
    ELSE NoReading

\* variant: each weight is applied to the other term
RiskScore_swapped(ens, anomaly_score, predicted_aqi) ==
    Frac(anomaly_score.num * Get(ens.weights, "aqi", 5) * 500
            + Min2(predicted_aqi, 500) * Get(ens.weights, "anomaly", 5) * anomaly_score.den,
         anomaly_score.den * 5000)

\* anomaly_score * weights.get('anomaly', 0.5) + aqi_norm * weights.get('aqi', 0.5),
\* weights in tenths, aqi_norm = min(predicted_aqi / 500, 1.0)
RiskScore(ens, anomaly_score, predicted_aqi) ==
    Frac(anomaly_score.num * Get(ens.weights, "anomaly", 5) * 500
            + Min2(predicted_aqi, 500) * Get(ens.weights, "aqi", 5) * anomaly_score.den,
         anomaly_score.den * 5000)

\* EnsembleModel.predict(X): the results dict
EnsemblePredict(ens, out) ==
    LET an == EnsembleAnomaly(ens, out)
        aq == EnsembleAqi(ens, out)
        risk_score == RiskScore(ens, Get(an, "anomaly_score", Frac(0, 1)),
                                Get(aq, "predicted_aqi", 0))
    IN  an @@ aq @@
        [risk_score |-> Clip01(risk_score),
         risk_level |-> IF Get(an, "is_anomaly", FALSE) THEN "HIGH"
                        ELSE classify_risk(risk_score)]

-----------------------------------------------------------------------------
(* The /predict handler of model_server.py                                 *)
(* alerting_service stays None: the import of MLAlertingService and        *)
(* create_alerting_service (line 49) fails, monitoring/alerting.py defines *)
(* only AlertManager.  The alert block is skipped and alerts_generated     *)
(* keeps its initial 0.                                                    *)

\* Python None
None == [None |-> TRUE]

\* details = anomaly_details if anomaly_details else None
Details(anomaly_details) == IF anomaly_details = NoReading THEN None ELSE anomaly_details

\* variant: the AQI of the trained branch is recomputed from pm25
PredictTrainedResponse_ruleaqi(r, res) ==
    LET predicted_aqi == calculate_aqi_from_pm25(Get(r, "pm25", 0))[1]
        model_anomaly == Get(res, "anomaly_score", Frac(0, 1))
        rule == calculate_anomaly_score(r)
        anomaly_score == IF model_anomaly.num = 0 THEN rule.anomaly_score ELSE model_anomaly
        is_anomaly == IF model_anomaly.num = 0 THEN rule.is_anomaly
                      ELSE FracGe(anomaly_score, 3, 10)
        anomaly_details == IF model_anomaly.num = 0 THEN rule.anomaly_details ELSE NoReading
    IN  [predicted_aqi |-> predicted_aqi,
         anomaly_score |-> anomaly_score,
         is_anomaly    |-> is_anomaly,
         risk_level    |-> calculate_risk_level(predicted_aqi, anomaly_score),
         alerts_generated |-> 0,
         details       |-> Details(anomaly_details),
         branch        |-> "trained"]

\* trained-model branch: ensemble_model.predict(X) returned, no exception
PredictTrainedResponse(r, res) ==
    LET predicted_aqi == Get(res, "predicted_aqi", 0)
        model_anomaly == Get(res, "anomaly_score", Frac(0, 1))
        rule == calculate_anomaly_score(r)
        anomaly_score == IF model_anomaly.num = 0 THEN rule.anomaly_score ELSE model_anomaly
        is_anomaly == IF model_anomaly.num = 0 THEN rule.is_anomaly
                      ELSE FracGe(anomaly_score, 3, 10)
        anomaly_details == IF model_anomaly.num = 0 THEN rule.anomaly_details ELSE NoReading
    IN  [predicted_aqi |-> predicted_aqi,
         anomaly_score |-> anomaly_score,
         is_anomaly    |-> is_anomaly,
         risk_level    |-> calculate_risk_level(predicted_aqi, anomaly_score),
         alerts_generated |-> 0,
         details       |-> Details(anomaly_details),
         branch        |-> "trained"]

\* rule-based branch and the fallback after an exception in the model branch
PredictRuleResponse(res, branch) ==
    [predicted_aqi |-> res.predicted_aqi,
     anomaly_score |-> res.anomaly_score,
     is_anomaly    |-> res.is_anomaly,
     risk_level    |-> res.risk_level,
     alerts_generated |-> 0,
     details       |-> Details(res.anomaly_details),
     branch        |-> branch]

-----------------------------------------------------------------------------
(* AlertManager of monitoring/alerting.py                                  *)
(* The webhook is opaque: a POST ends with an HTTP status or with an       *)
(* exception of the transport.  The payload is carried without its message *)
(* text and time stamps, which no decision reads.                          *)

\* requests.post returned a response with this status code
Status(code) == [kind |-> "status", code |-> code, exc |-> "none"]

\* requests.post raised this exception
Raises(exc) == [kind |-> "exception", code |-> 0, exc |-> exc]

\* variant: an exception of the transport propagates to the caller
send_alert_reraise(alert_type, severity, data, outcome) ==
    [type     |-> alert_type,
     severity |-> severity,
     sensorId |-> Get(data, "sensorId", "UNKNOWN"),
     resolved |-> FALSE,
     reading  |-> [co2 |-> Get(data, "co2", 0), pm25 |-> Get(data, "pm25", 0),
                   voc |-> Get(data, "voc", 0)],
     outcome  |-> outcome,
     log      |-> IF outcome.kind = "status" /\ outcome.code = 201 THEN "info" ELSE "error",
     raised   |-> outcome.kind = "exception"]

\* send_alert: the payload posted, the outcome of the POST, the level of the
\* log line written, and whether the call raised
send_alert(alert_type, severity, data, outcome) ==
    [type     |-> alert_type,
     severity |-> severity,
     sensorId |-> Get(data, "sensorId", "UNKNOWN"),
     resolved |-> FALSE,
     reading  |-> [co2 |-> Get(data, "co2", 0), pm25 |-> Get(data, "pm25", 0),
                   voc |-> Get(data, "voc", 0)],
     outcome  |-> outcome,
     log      |-> IF outcome.kind = "status" /\ outcome.code = 201 THEN "info" ELSE "error",
     raised   |-> FALSE]

\* variant: the thresholds are tested from the lowest up
get_aqi_severity_ascending(thresholds, aqi_value) ==
    IF aqi_value >= thresholds.warning THEN "WARNING"
    ELSE IF aqi_value >= thresholds.danger THEN "DANGER"
    ELSE IF aqi_value >= thresholds.emergency THEN "CRITICAL"
    ELSE "INFO"

\* _get_aqi_severity
get_aqi_severity(thresholds, aqi_value) ==
    IF aqi_value >= thresholds.emergency THEN "CRITICAL"
    ELSE IF aqi_value >= thresholds.danger THEN "DANGER"
    ELSE IF aqi_value >= thresholds.warning THEN "WARNING"
    ELSE "INFO"

\* variant: the anomaly alert is sent whenever the result carries the flag,
\* whatever its value
check_and_alert_present(thresholds, prediction_result, outcomes) ==
    LET anomaly == IF "is_anomaly" \in DOMAIN prediction_result
                   THEN <<send_alert("ANOMALY_DETECTED", "WARNING", prediction_result,
                                     outcomes[1])>>
                   ELSE <<>>
        stopped == anomaly # <<>> /\ anomaly[1].raised
        predicted_aqi == Get(prediction_result, "predicted_aqi", 0)
        high == IF ~stopped /\ predicted_aqi > thresholds.warning
                THEN <<send_alert("AQI_HIGH", get_aqi_severity(thresholds, predicted_aqi),
                                  prediction_result, outcomes[2])>>
                ELSE <<>>
    IN  anomaly \o high

\* variant: the AQI test is an elif of the anomaly test
check_and_alert_elif(thresholds, prediction_result, outcomes) ==
    LET anomaly == IF Get(prediction_result, "is_anomaly", FALSE)
                   THEN <<send_alert("ANOMALY_DETECTED", "WARNING", prediction_result,
                                     outcomes[1])>>
                   ELSE <<>>
        predicted_aqi == Get(prediction_result, "predicted_aqi", 0)
        high == IF anomaly = <<>> /\ predicted_aqi > thresholds.warning
                THEN <<send_alert("AQI_HIGH", get_aqi_severity(thresholds, predicted_aqi),
                                  prediction_result, outcomes[2])>>
                ELSE <<>>
    IN  anomaly \o high

\* check_and_alert: the send_alert calls it makes, in order; outcomes[1] is
\* what the webhook answers to the anomaly alert, outcomes[2] to the AQI
\* alert.  A send_alert that raises ends the method.
check_and_alert(thresholds, prediction_result, outcomes) ==
    LET anomaly == IF Get(prediction_result, "is_anomaly", FALSE)
                   THEN <<send_alert("ANOMALY_DETECTED", "WARNING", prediction_result,
                                     outcomes[1])>>
                   ELSE <<>>
        stopped == anomaly # <<>> /\ anomaly[1].raised
        predicted_aqi == Get(prediction_result, "predicted_aqi", 0)
        high == IF ~stopped /\ predicted_aqi > thresholds.warning
                THEN <<send_alert("AQI_HIGH", get_aqi_severity(thresholds, predicted_aqi),
                                  prediction_result, outcomes[2])>>
                ELSE <<>>
    IN  anomaly \o high

\* how a check_and_alert call ended
CheckOutcome(sent) ==
    [kind |-> IF \E i \in DOMAIN sent : sent[i].raised THEN "raised" ELSE "returned",
     n    |-> Len(sent)]

-----------------------------------------------------------------------------
(* The alert block of /predict (model_server.py lines 473-501)             *)
(* MLAlertingService is not part of monitoring/alerting.py; what its       *)
(* process_prediction does is an outcome drawn per call: a list of n       *)
(* alerts, None, or an exception.                                          *)

\* the values of the module global alerting_service
AlertingServices == {"None", "service"}

\* outcomes of alerting_service.process_prediction
ProcessPredictionOutcomes ==
    {[kind |-> "list", n |-> n] : n \in 0..2}
        \cup {[kind |-> "none", n |-> 0], [kind |-> "raise", n |-> 0]}

\* process_prediction was not called
NotCalled == [kind |-> "not called", n |-> 0]

\* the HTTPException raised by the outer except of /predict
HTTP500 == [status_code |-> 500, detail |-> "Prediction failed"]

\* variant: an exception of the alerting service reaches the outer except
PredictAlerts_fatal(resp, service, outcome) ==
    IF service # "None" /\ outcome.kind = "raise"
    THEN HTTP500
    ELSE [resp EXCEPT !.alerts_generated =
             IF service # "None" /\ outcome.kind = "list" THEN outcome.n ELSE 0]

\* the alert block applied to the response computed before it:
\* alerts_generated = len(alerts) if alerts else 0, 0 after an exception
PredictAlerts(resp, service, outcome) ==
    [resp EXCEPT !.alerts_generated =
        IF service # "None" /\ outcome.kind = "list" THEN outcome.n ELSE 0]

-----------------------------------------------------------------------------
(* DataPreprocessor.transform and the frame preparation of /predict        *)
(* A frame is the sequence of its columns; a column is its name, its dtype *)
(* ("num" or "obj") and where its values come from: the input data, the    *)
(* constant 0, or the constant "unknown".                                  *)

Column(name, dtype, fill) == [name |-> name, dtype |-> dtype, fill |-> fill]

ColNames(X) == [i \in DOMAIN X |-> X[i].name]

NameSet(X) == {X[i].name : i \in DOMAIN X}

\* X.drop(columns=[c for c in names if c in X.columns])
DropCols(X, names) ==
    LET keep(c) == c.name \notin names
    IN  SelectSeq(X, keep)

\* the columns _scale_features leaves alone
skip_cols == {"hour_sin", "hour_cos", "day_sin", "day_cos", "is_weekend"}

\* _encode_categorical(X, fit=False): an object column with a fitted encoder
\* becomes numeric
encode_categorical(self, X) ==
    [i \in DOMAIN X |->
        IF X[i].dtype = "obj" /\ X[i].name \notin self.columns_to_drop
              /\ X[i].name \in self.encoders
        THEN [X[i] EXCEPT !.dtype = "num"]
        ELSE X[i]]

\* numeric_cols of _scale_features
NumericCols(X) ==
    LET scaled(c) == c.dtype = "num" /\ c.name \notin skip_cols
    IN  ColNames(SelectSeq(X, scaled))

\* the columns the scaler was fitted on: at fit every column that stays is
\* numeric, so these are the fitted features outside skip_cols
FittedScaled(self) ==
    LET scaled(n) == n \notin skip_cols
    IN  SelectSeq(self.feature_names, scaled)

\* _scale_features(X, fit=False): scaler.transform raises on a different
\* number of columns; on the same number with other names or another order
\* it raises or not with the version of the library (strict)
scale_raises(self, X, strict) ==
    /\ NumericCols(X) # <<>>
    /\ FittedScaled(self) # <<>>
    /\ NumericCols(X) # FittedScaled(self)
    /\ (Len(NumericCols(X)) # Len(FittedScaled(self)) \/ strict)

\* the frame after dropping, encoding, filling, scaling and removing what is
\* still not numeric
Numeric(self, df) ==
    LET num(c) == c.dtype = "num"
    IN  SelectSeq(encode_categorical(self, DropCols(df, self.columns_to_drop)), num)

\* missing_cols = set(self.feature_names) - set(X.columns)
missing_cols(self, df) == {self.feature_names[k] : k \in DOMAIN self.feature_names}
                             \ NameSet(Numeric(self, df))

\* the column of X with this name
ColumnOf(X, name) == X[CHOOSE i \in DOMAIN X : X[i].name = name]

\* variant: the final reordering X[self.feature_names] is left out
transform_noreorder(self, df, order, strict) ==
    LET X == Numeric(self, df)
        added == [k \in DOMAIN order |-> Column(order[k], "num", "zero")]
        fitted(c) == c.name \in {self.feature_names[k] : k \in DOMAIN self.feature_names}
    IN  IF scale_raises(self, encode_categorical(self, DropCols(df, self.columns_to_drop)),
                        strict)
        THEN [outcome |-> "raised", output |-> <<>>]
        ELSE [outcome |-> "returned", output |-> SelectSeq(X \o added, fitted)]

\* DataPreprocessor.transform(df): order is the order in which the set
\* missing_cols is iterated
transform(self, df, order, strict) ==
    LET X == Numeric(self, df)
        added == [k \in DOMAIN order |-> Column(order[k], "num", "zero")]
        fitted(c) == c.name \in {self.feature_names[k] : k \in DOMAIN self.feature_names}
        kept == SelectSeq(X \o added, fitted)
    IN  IF scale_raises(self, encode_categorical(self, DropCols(df, self.columns_to_drop)),
                        strict)
        THEN [outcome |-> "raised", output |-> <<>>]
        ELSE [outcome |-> "returned",
              output  |-> [k \in DOMAIN self.feature_names |->
                              ColumnOf(kept, self.feature_names[k])]]

\* /predict lines 420-430: drop the target columns, back-fill the expected
\* features that are missing, select the expected features in order
target_cols == {"aqi_pm25", "aqi_category", "aqi_pm10", "target"}

BackFilled(col) ==
    IF col \in {"aqi_category", "location"} THEN Column(col, "obj", "unknown")
    ELSE Column(col, "num", "zero")

select_expected(self, df_features) ==
    LET X == DropCols(df_features, target_cols)
    IN  [k \in DOMAIN self.feature_names |->
            IF self.feature_names[k] \in NameSet(X)
            THEN ColumnOf(X, self.feature_names[k])
            ELSE BackFilled(self.feature_names[k])]

-----------------------------------------------------------------------------
(* DataValidator.validate_real_time of data/data_validator.py             *)

\* required = ['temperature', 'humidity', 'co2', 'pm25']
RequiredFields == {"temperature", "humidity", "co2", "pm25"}

\* Returns [is_valid, errors]; an error is <<kind, field>>, the list order
\* is not kept.  The range rules are read only when no field is missing.
validate_real_time(rules, r) ==
    LET missing == RequiredFields \ DOMAIN r
        outside == {f \in DOMAIN rules \cap DOMAIN r :
                      r[f] < rules[f].min \/ r[f] > rules[f].max}
    IN  IF missing # {}
        THEN [is_valid |-> FALSE,
              errors   |-> {<<"Missing required field", f>> : f \in missing}]
        ELSE [is_valid |-> outside = {},
              errors   |-> {<<"outside valid range", f>> : f \in outside}]

-----------------------------------------------------------------------------
(* Calls of calculate_aqi_from_pm25 on a rising sequence of arguments      *)

NoAqi == <<-1, "NoResult">>

NoScore == [anomaly_score |-> Frac(-1, 1), is_anomaly |-> FALSE, anomaly_details |-> NoReading]

NoModel == [None |-> TRUE]

NoOut == [scores |-> <<>>, labels |-> <<>>, aqi_pred |-> <<>>]

ServerIdle ==
    /\ started = FALSE
    /\ anomaly_detector = "None"
    /\ aqi_predictor = "None"
    /\ ensemble_model = NoModel
    /\ request = NoReading
    /\ model_out = NoOut
    /\ results = NoReading
    /\ response = NoReading

PureIdle ==
    /\ call = NoCall
    /\ memo = NoCall
    /\ between = 0

AqiIdle ==
    /\ pm25 = 0
    /\ aqi = NoAqi
    /\ prev_pm25 = 0
    /\ prev_aqi = NoAqi

AnomalyIdle ==
    /\ reading = NoReading
    /\ score = NoScore
    /\ prev_reading = NoReading
    /\ prev_score = NoScore

NoThresholds == [warning |-> 0, danger |-> 0, emergency |-> 0]

AlertIdle ==
    /\ alert_config = NoThresholds
    /\ alerting_service = "None"
    /\ alerts = <<>>
    /\ alert_outcome = NotCalled

NoValidation == [reading |-> NoReading, is_valid |-> FALSE, errors |-> {}]

ValidateIdle ==
    /\ validation_rules = NoReading
    /\ validation = NoValidation

NoInstance == [is_fitted |-> FALSE]

NoModelCall == [target |-> "none", op |-> "none", outcome |-> "none"]

ModelsIdle ==
    /\ detector = NoInstance
    /\ predictor = NoInstance
    /\ model_call = NoModelCall

NoPreprocessor == [feature_names |-> <<>>, columns_to_drop |-> {}, encoders |-> {}]

NoFrame == [path |-> "none"]

FrameIdle ==
    /\ preprocessor = NoPreprocessor
    /\ frame = NoFrame

NoRealtime == [models |-> NoReading, cache |-> NoReading]

NoRtCall == [outcome |-> "none"]

CacheIdle ==
    /\ realtime = NoRealtime
    /\ rt_call = NoRtCall

NoBatch == [outcome |-> "none"]

BatchIdle == batch = NoBatch

LibIdle == ModelsIdle /\ FrameIdle /\ CacheIdle /\ BatchIdle

InitAqi ==
    /\ pm25 \in -PmBelow..PmMax
    /\ aqi = NoAqi
    /\ prev_pm25 = pm25
    /\ prev_aqi = NoAqi
    /\ AnomalyIdle /\ ServerIdle /\ PureIdle /\ AlertIdle /\ ValidateIdle /\ LibIdle

\* the call on the current argument returns
CalcAqi ==
    /\ aqi = NoAqi
    /\ aqi' = calculate_aqi_from_pm25(pm25)
    /\ UNCHANGED <<pm25, prev_pm25, prev_aqi, anomalyVars, serverVars, pureVars, alertVars, validateVars, libVars>>

\* the caller moves on to an argument that is not smaller
NextPm25 ==
    /\ aqi # NoAqi
    /\ \E b \in pm25..Min2(pm25 + MaxStep, PmMax) :
          /\ pm25' = b
          /\ aqi' = NoAqi
          /\ prev_pm25' = pm25
          /\ prev_aqi' = aqi
    /\ UNCHANGED <<anomalyVars, serverVars, pureVars, alertVars, validateVars, libVars>>

NextAqi == CalcAqi \/ NextPm25

SpecAqi == InitAqi /\ [][NextAqi]_vars

-----------------------------------------------------------------------------
(* Calls of calculate_anomaly_score on readings that differ in one metric  *)

\* Readings around the normal band, the boost thresholds and the critical
\* bound of pm25.
RelValues == [
    temperature |-> {15, 25, 40},
    humidity    |-> {50, 70, 80},
    co2         |-> {675, 1200},
    voc         |-> {0, 25, 50, 60},
    pm25        |-> {1750, 3500, 3501, 5000, 5001, 50000, 50001},
    pm10        |-> {25, 50, 76} ]

\* Readings with every metric below, at, or above a critical bound, or at
\* the midpoint of its normal range.
ExtValues == [
    temperature |-> {-5, 0, 25, 45, 50},
    humidity    |-> {5, 10, 50, 90, 95},
    co2         |-> {-10, 0, 675, 5000, 6000},
    voc         |-> {-10, 0, 25, 300, 500},
    pm25        |-> {-100, 0, 1750, 50000, 50001},
    pm10        |-> {-1, 0, 25, 600, 601} ]

ReadingsOver(values) ==
    [temperature : values.temperature, humidity : values.humidity, co2 : values.co2,
     voc : values.voc, pm25 : values.pm25, pm10 : values.pm10]

InValues(r, values) == \A m \in Metrics : r[m] \in values[m]

Readings == ReadingsOver(RelValues) \cup ReadingsOver(ExtValues)

InitAnomaly ==
    /\ reading \in Readings
    /\ score = NoScore
    /\ prev_reading = reading
    /\ prev_score = NoScore
    /\ AqiIdle /\ ServerIdle /\ PureIdle /\ AlertIdle /\ ValidateIdle /\ LibIdle

\* the call on the current reading returns
CalcAnomaly ==
    /\ score = NoScore
    /\ score' = calculate_anomaly_score(reading)
    /\ UNCHANGED <<reading, prev_reading, prev_score, aqiVars, serverVars, pureVars, alertVars, validateVars, libVars>>

\* the next reading raises one metric and keeps the other five
NextReading ==
    /\ score # NoScore
    /\ \E m \in Metrics : \E v \in RelValues[m] \cup ExtValues[m] :
          LET r == [reading EXCEPT ![m] = v]
          IN  /\ v > reading[m]
              /\ InValues(r, RelValues) \/ InValues(r, ExtValues)
              /\ reading' = r
              /\ score' = NoScore
              /\ prev_reading' = reading
              /\ prev_score' = score
    /\ UNCHANGED <<aqiVars, serverVars, pureVars, alertVars, validateVars, libVars>>

NextAnomaly == CalcAnomaly \/ NextReading

SpecAnomaly == InitAnomaly /\ [][NextAnomaly]_vars

-----------------------------------------------------------------------------
(* The model server: load_models at startup, then /predict requests        *)

\* ensemble weights of config.yaml, in tenths; a missing key takes the
\* default 0.5 of weights.get
WeightConfigs == {
    [anomaly |-> 5, aqi |-> 5],
    [anomaly |-> 4, aqi |-> 6],
    [anomaly |-> 10, aqi |-> 10],
    [aqi |-> 0] }

\* raw score_samples values (lower is more anomalous)
RawScores == {Finite(-8), Finite(-6), Finite(-5), Finite(-4)}

\* values the AQI regressor may return
AqiOutputs == {Finite(-20), Finite(20), Finite(100), Finite(150), Finite(260),
               Finite(650), NaN, PosInf, NegInf}

\* what the trained models return for a frame of n rows
\* (only the regressor's first row is read; the other rows are held at 20)
ModelOutputs(n) ==
    [scores : [1..n -> RawScores], labels : [1..n -> {-1, 1}],
     aqi_pred : {[i \in 1..n |-> IF i = 1 THEN a ELSE Finite(20)] : a \in AqiOutputs}]

\* what they return for the one-row frame of a /predict request; the raw
\* score of a single row never reaches the result
SingleRowOutputs ==
    [scores : [1..1 -> {Finite(-8), Finite(-5), NaN}], labels : [1..1 -> {-1, 1}], aqi_pred : [1..1 -> AqiOutputs]]

\* readings sent to /predict: negative values, values between two AQI bands,
\* normal values and values beyond the critical bounds
SrvValues == [
    temperature |-> {-5, 25, 50},
    humidity    |-> {50, 95},
    co2         |-> {500, 1200, 6000},
    voc         |-> {-10, 30, 500},
    pm25        |-> {-100, 480, 1205, 1500, 5001, 60000},
    pm10        |-> {25, 76, 601} ]

Init ==
    /\ started = FALSE
    /\ anomaly_detector = "None"
    /\ aqi_predictor = "None"
    /\ ensemble_model = NoModel
    /\ request = NoReading
    /\ model_out = NoOut
    /\ results = NoReading
    /\ response = NoReading
    /\ AqiIdle /\ AnomalyIdle /\ PureIdle /\ AlertIdle /\ ValidateIdle /\ LibIdle

\* load_models: with every model file present the artifacts are loaded in
\* order (detector, predictor, preprocessor, feature engineer, ensemble);
\* filesPresent = FALSE is a missing file or a failed import, failAt = k an
\* exception in step k, which skips the remaining steps.
LoadModels ==
    /\ ~started
    /\ \E filesPresent \in BOOLEAN : \E failAt \in 0..5 : \E w \in WeightConfigs :
          LET done(k) == filesPresent /\ (failAt = 0 \/ failAt > k)
          IN  /\ anomaly_detector' = IF done(1) THEN "loaded" ELSE "None"
              /\ aqi_predictor' = IF done(2) THEN "loaded" ELSE "None"
              /\ ensemble_model' = IF done(5)
                                   THEN [weights |-> w, anomaly_detector |-> TRUE,
                                         aqi_predictor |-> TRUE]
                                   ELSE NoModel
    /\ started' = TRUE
    /\ UNCHANGED <<request, model_out, results, response, aqiVars, anomalyVars, pureVars, alertVars, validateVars, libVars>>

\* /predict, ensemble_model is not None and the model branch completes
PredictTrained ==
    /\ started
    /\ request = NoReading
    /\ ensemble_model # NoModel
    /\ \E r \in ReadingsOver(SrvValues) : \E out \in SingleRowOutputs :
          LET res == EnsemblePredict(ensemble_model, out)
          IN  /\ request' = r
              /\ model_out' = out
              /\ results' = res
              /\ response' = PredictTrainedResponse(r, res)
    /\ UNCHANGED <<started, anomaly_detector, aqi_predictor, ensemble_model,
                   aqiVars, anomalyVars, pureVars, alertVars, validateVars, libVars>>

\* what the models had returned when the model branch raised: nothing (the
\* exception came before or from the detector), or the detector's output
\* (the exception came from aqi_predictor.predict)
FailedOutputs ==
    {NoOut} \cup {[scores |-> o.scores, labels |-> o.labels, aqi_pred |-> <<>>] :
                     o \in SingleRowOutputs}

\* /predict, ensemble_model is not None and the model branch raises
PredictFallback ==
    /\ started
    /\ request = NoReading
    /\ ensemble_model # NoModel
    /\ \E r \in ReadingsOver(SrvValues) : \E out \in FailedOutputs :
          LET res == make_prediction(r)
          IN  /\ request' = r
              /\ model_out' = out
              /\ results' = res
              /\ response' = PredictRuleResponse(res, "fallback")
    /\ UNCHANGED <<started, anomaly_detector, aqi_predictor, ensemble_model,
                   aqiVars, anomalyVars, pureVars, alertVars, validateVars, libVars>>

\* /predict, ensemble_model is None
PredictRuleBased ==
    /\ started
    /\ request = NoReading
    /\ ensemble_model = NoModel
    /\ \E r \in ReadingsOver(SrvValues) :
          LET res == make_prediction(r)
          IN  /\ request' = r
              /\ model_out' = NoOut
              /\ results' = res
              /\ response' = PredictRuleResponse(res, "rule_based")
    /\ UNCHANGED <<started, anomaly_detector, aqi_predictor, ensemble_model,
                   aqiVars, anomalyVars, pureVars, alertVars, validateVars, libVars>>

\* the response has been sent; the handler's locals are gone
Return ==
    /\ request # NoReading
    /\ request' = NoReading
    /\ model_out' = NoOut
    /\ results' = NoReading
    /\ response' = NoReading
    /\ UNCHANGED <<started, anomaly_detector, aqi_predictor, ensemble_model,
                   aqiVars, anomalyVars, pureVars, alertVars, validateVars, libVars>>

Next == LoadModels \/ PredictTrained \/ PredictFallback \/ PredictRuleBased \/ Return

Spec == Init /\ [][Next]_vars

-----------------------------------------------------------------------------
(* EnsembleModel.predict on frames of up to MaxRows rows                   *)

InitEnsemble ==
    /\ ensemble_model \in [weights : WeightConfigs, anomaly_detector : BOOLEAN,
                           aqi_predictor : BOOLEAN]
    /\ started = FALSE
    /\ anomaly_detector = "None"
    /\ aqi_predictor = "None"
    /\ request = NoReading
    /\ model_out = NoOut
    /\ results = NoReading
    /\ response = NoReading
    /\ AqiIdle /\ AnomalyIdle /\ PureIdle /\ AlertIdle /\ ValidateIdle /\ LibIdle

\* ensemble.predict(X) for a frame X of n rows
EnsembleCall ==
    /\ results = NoReading
    /\ \E n \in 1..MaxRows : \E out \in ModelOutputs(n) :
          /\ model_out' = out
          /\ results' = EnsemblePredict(ensemble_model, out)
    /\ UNCHANGED <<started, anomaly_detector, aqi_predictor, ensemble_model, request,
                   response, aqiVars, anomalyVars, pureVars, alertVars, validateVars, libVars>>

\* the caller has consumed the results dict
EnsembleReturn ==
    /\ results # NoReading
    /\ model_out' = NoOut
    /\ results' = NoReading
    /\ UNCHANGED <<started, anomaly_detector, aqi_predictor, ensemble_model, request,
                   response, aqiVars, anomalyVars, pureVars, alertVars, validateVars, libVars>>

NextEnsemble == EnsembleCall \/ EnsembleReturn

SpecEnsemble == InitEnsemble /\ [][NextEnsemble]_vars

-----------------------------------------------------------------------------
(* Repeated make_prediction calls                                          *)

PureValues == [
    temperature |-> {25, 50},
    humidity    |-> {50, 95},
    co2         |-> {500, 6000},
    voc         |-> {30},
    pm25        |-> {1205, 1500, 5001},
    pm10        |-> {25, 76} ]

InitPure ==
    /\ call = NoCall
    /\ memo = NoCall
    /\ between = 0
    /\ AqiIdle /\ AnomalyIdle /\ ServerIdle /\ AlertIdle /\ ValidateIdle /\ LibIdle

\* one make_prediction call returns
MakePredictionCall ==
    /\ \E r \in ReadingsOver(PureValues) :
          call' = [reading |-> r, result |-> make_prediction(r)]
    /\ between' = IF memo = NoCall THEN 0 ELSE Min2(between + 1, MaxCalls)
    /\ UNCHANGED <<memo, aqiVars, anomalyVars, serverVars, alertVars, validateVars, libVars>>

\* the observer keeps the latest call to compare later calls with
Remember ==
    /\ call # NoCall
    /\ memo' = call
    /\ between' = 0
    /\ UNCHANGED <<call, aqiVars, anomalyVars, serverVars, alertVars, validateVars, libVars>>

NextPure == MakePredictionCall \/ Remember

SpecPure == InitPure /\ [][NextPure]_vars

-----------------------------------------------------------------------------
(* Alerting: AlertManager.check_and_alert on rule-based predictions, and   *)
(* /predict requests on a server without model files                       *)

\* alerts.aqi_thresholds of config.yaml
AlertConfigs == {
    [warning |-> 100, danger |-> 150, emergency |-> 200],
    [warning |-> 100, danger |-> 200, emergency |-> 300],
    [warning |-> 50,  danger |-> 100, emergency |-> 150] }

\* what the webhook may answer to one POST
DeliveryOutcomes == {Status(201), Status(200), Status(404), Status(500),
                     Raises("Timeout"), Raises("ConnectionError")}

\* readings from all-normal to all-critical
AlertValues == [
    temperature |-> {25, 50},
    humidity    |-> {50, 95},
    co2         |-> {500, 5000},
    voc         |-> {30, 500},
    pm25        |-> {1500, 4000, 50000},
    pm10        |-> {25, 600} ]

InitAlert ==
    /\ alert_config \in AlertConfigs
    /\ alerting_service \in AlertingServices
    /\ alerts = <<>>
    /\ alert_outcome = NotCalled
    /\ started = TRUE
    /\ anomaly_detector = "None"
    /\ aqi_predictor = "None"
    /\ ensemble_model = NoModel
    /\ request = NoReading
    /\ model_out = NoOut
    /\ results = NoReading
    /\ response = NoReading
    /\ AqiIdle /\ AnomalyIdle /\ PureIdle /\ ValidateIdle /\ LibIdle

\* alert_manager.check_and_alert(make_prediction(r))
CheckAndAlert ==
    /\ results = NoReading
    /\ \E r \in ReadingsOver(AlertValues) : \E outcomes \in DeliveryOutcomes \X DeliveryOutcomes :
          LET res  == make_prediction(r)
              sent == check_and_alert(alert_config, res, outcomes)
          IN  /\ request' = r
              /\ results' = res
              /\ alerts' = sent
              /\ alert_outcome' = CheckOutcome(sent)
    /\ UNCHANGED <<started, anomaly_detector, aqi_predictor, ensemble_model, model_out,
                   response, alert_config, alerting_service,
                   aqiVars, anomalyVars, pureVars, validateVars, libVars>>

\* /predict, ensemble_model is None: the rule-based prediction, then the
\* alert block, then the response
PredictAlerting ==
    /\ started
    /\ results = NoReading
    /\ ensemble_model = NoModel
    /\ \E r \in ReadingsOver(AlertValues) : \E outcome \in ProcessPredictionOutcomes :
          LET res == make_prediction(r)
          IN  /\ request' = r
              /\ results' = res
              /\ alert_outcome' = IF alerting_service = "None" THEN NotCalled ELSE outcome
              /\ response' = PredictAlerts(PredictRuleResponse(res, "rule_based"),
                                           alerting_service, outcome)
    /\ UNCHANGED <<started, anomaly_detector, aqi_predictor, ensemble_model, model_out,
                   alert_config, alerting_service, alerts,
                   aqiVars, anomalyVars, pureVars, validateVars, libVars>>

\* the caller has consumed the outcome
AlertReturn ==
    /\ results # NoReading
    /\ request' = NoReading
    /\ results' = NoReading
    /\ response' = NoReading
    /\ alerts' = <<>>
    /\ alert_outcome' = NotCalled
    /\ UNCHANGED <<started, anomaly_detector, aqi_predictor, ensemble_model, model_out,
                   alert_config, alerting_service,
                   aqiVars, anomalyVars, pureVars, validateVars, libVars>>

NextAlert == CheckAndAlert \/ PredictAlerting \/ AlertReturn

SpecAlert == InitAlert /\ [][NextAlert]_vars

-----------------------------------------------------------------------------
(* Readings with missing metrics, given to validate_real_time and to       *)
(* make_prediction                                                         *)

\* data.validation of config.yaml: no rule, or a range per field
ValidationRules == {
    NoReading,
    [temperature |-> [min |-> -40, max |-> 85],
     humidity    |-> [min |-> 0,   max |-> 100],
     co2         |-> [min |-> 0,   max |-> 5000],
     pm25        |-> [min |-> 0,   max |-> 50000]] }

ValidateValues == [
    temperature |-> {25, 90},
    humidity    |-> {50},
    co2         |-> {500},
    voc         |-> {30},
    pm25        |-> {1500, 4000},
    pm10        |-> {25} ]

\* the dicts that carry any subset of the six metrics
PartialReadings(values) ==
    UNION {{r \in [D -> UNION {values[m] : m \in D}] : \A m \in D : r[m] \in values[m]} :
             D \in SUBSET Metrics}

InitValidate ==
    /\ validation_rules \in ValidationRules
    /\ validation = NoValidation
    /\ AqiIdle /\ AnomalyIdle /\ ServerIdle /\ PureIdle /\ AlertIdle /\ LibIdle

\* validator.validate_real_time(r)
ValidateRealTime ==
    /\ validation = NoValidation
    /\ call = NoCall
    /\ \E r \in PartialReadings(ValidateValues) :
          validation' = [reading |-> r] @@ validate_real_time(validation_rules, r)
    /\ UNCHANGED <<validation_rules, call, memo, between,
                   aqiVars, anomalyVars, serverVars, alertVars, libVars>>

\* make_prediction(r) on a dict that may lack metrics
MakePredictionPartial ==
    /\ validation = NoValidation
    /\ call = NoCall
    /\ \E r \in PartialReadings(ValidateValues) :
          call' = [reading |-> r, result |-> make_prediction(r)]
    /\ UNCHANGED <<validation_rules, validation, memo, between,
                   aqiVars, anomalyVars, serverVars, alertVars, libVars>>

\* the caller has consumed the result
ValidateReturn ==
    /\ validation # NoValidation \/ call # NoCall
    /\ validation' = NoValidation
    /\ call' = NoCall
    /\ UNCHANGED <<validation_rules, memo, between,
                   aqiVars, anomalyVars, serverVars, alertVars, libVars>>

NextValidate == ValidateRealTime \/ MakePredictionPartial \/ ValidateReturn

SpecValidate == InitValidate /\ [][NextValidate]_vars

-----------------------------------------------------------------------------
(* calculate_anomaly_score on dicts that carry one metric, swept over its  *)
(* whole range, and on full readings around the anomaly threshold          *)

\* Values left out of the sweep: pm25 is taken at one decimal, and co2
\* values whose exact score is an odd multiple of 0.0005 are skipped (there
\* round(score, 3) depends on the last bit of the double quotient).
Sampled(m, v) ==
    CASE m = "pm25" -> v % 10 = 0
      [] m = "co2"  -> ~(1000 < v /\ v <= 5000 /\ (v - 1000) % 4 = 2)
      [] OTHER      -> TRUE

SingleMetricValues(m) ==
    {v \in (NORMAL_RANGES[m].critical_min - MetricMargin)
              ..(NORMAL_RANGES[m].critical_max + MetricMargin) : Sampled(m, v)}

SingleMetricReadings ==
    UNION {{[k \in {m} |-> v] : v \in SingleMetricValues(m)} : m \in Metrics}

\* full readings whose average score is just below, at, and above 0.3
ThresholdValues == [
    temperature |-> {25, 50},
    humidity    |-> {50},
    co2         |-> {500},
    voc         |-> {30},
    pm25        |-> {40500, 40600, 40700},
    pm10        |-> {25} ]

InitMetric ==
    /\ reading \in SingleMetricReadings \cup ReadingsOver(ThresholdValues)
    /\ score = NoScore
    /\ prev_reading = NoReading
    /\ prev_score = NoScore
    /\ AqiIdle /\ ServerIdle /\ PureIdle /\ AlertIdle /\ ValidateIdle /\ LibIdle

\* the caller has consumed the returned tuple
ScoreReturn ==
    /\ score # NoScore
    /\ score' = NoScore
    /\ UNCHANGED <<reading, prev_reading, prev_score, aqiVars, serverVars, pureVars,
                   alertVars, validateVars, libVars>>

NextMetric == CalcAnomaly \/ ScoreReturn

SpecMetric == InitMetric /\ [][NextMetric]_vars

-----------------------------------------------------------------------------
(* Life cycle of the two trained models: construct, fit or load, predict   *)

\* raw scores of a batch: what score_samples returns (finite, lower is more
\* anomalous) and NaN, which predict_scores guards against
BatchScores == RawScores \cup {NaN}

\* what the fitted estimators return for a frame of n rows when the call is
\* about the scores, about the labels, or about the AQI values
ScoreBatches(n) ==
    [scores : [1..n -> BatchScores], labels : {[i \in 1..n |-> 1]},
     aqi_pred : {[i \in 1..n |-> Finite(20)]}]

LabelBatches(n) ==
    [scores : {[i \in 1..n |-> Finite(-5)]}, labels : [1..n -> {-1, 1}],
     aqi_pred : {[i \in 1..n |-> Finite(20)]}]

InitModels ==
    /\ detector = NoInstance
    /\ predictor = NoInstance
    /\ model_call = NoModelCall
    /\ AqiIdle /\ AnomalyIdle /\ ServerIdle /\ PureIdle /\ AlertIdle /\ ValidateIdle
    /\ FrameIdle /\ CacheIdle /\ BatchIdle

Called(target, op, out, result) ==
    [target |-> target, op |-> op, raw |-> out] @@ result

\* detector.fit(X)
DetectorFit ==
    /\ model_call = NoModelCall
    /\ \E fitted \in BOOLEAN :
          /\ detector' = fit(detector, fitted)
          /\ model_call' = Called("detector", "fit", NoOut,
                                  IF fitted THEN Returned(<<>>)
                                  ELSE [outcome |-> "raised", value |-> <<>>])
    /\ UNCHANGED <<predictor, aqiVars, anomalyVars, serverVars, pureVars, alertVars,
                   validateVars, frameVars, cacheVars, batchVars>>

\* detector = AnomalyDetector.load(path)
DetectorLoad ==
    /\ model_call = NoModelCall
    /\ \E loaded \in BOOLEAN :
          /\ detector' = IF loaded THEN load ELSE detector
          /\ model_call' = Called("detector", "load", NoOut,
                                  IF loaded THEN Returned(<<>>)
                                  ELSE [outcome |-> "raised", value |-> <<>>])
    /\ UNCHANGED <<predictor, aqiVars, anomalyVars, serverVars, pureVars, alertVars,
                   validateVars, frameVars, cacheVars, batchVars>>

\* predictor.fit(X_train, y_train)
PredictorFit ==
    /\ model_call = NoModelCall
    /\ \E fitted \in BOOLEAN :
          /\ predictor' = fit(predictor, fitted)
          /\ model_call' = Called("predictor", "fit", NoOut,
                                  IF fitted THEN Returned(<<>>)
                                  ELSE [outcome |-> "raised", value |-> <<>>])
    /\ UNCHANGED <<detector, aqiVars, anomalyVars, serverVars, pureVars, alertVars,
                   validateVars, frameVars, cacheVars, batchVars>>

\* predictor = AQIPredictor.load(path)
PredictorLoad ==
    /\ model_call = NoModelCall
    /\ \E loaded \in BOOLEAN :
          /\ predictor' = IF loaded THEN load ELSE predictor
          /\ model_call' = Called("predictor", "load", NoOut,
                                  IF loaded THEN Returned(<<>>)
                                  ELSE [outcome |-> "raised", value |-> <<>>])
    /\ UNCHANGED <<detector, aqiVars, anomalyVars, serverVars, pureVars, alertVars,
                   validateVars, frameVars, cacheVars, batchVars>>

\* detector.predict(X)
DetectorPredict ==
    /\ model_call = NoModelCall
    /\ \E n \in 1..MaxRows : \E out \in LabelBatches(n) :
          model_call' = Called("detector", "predict", out,
                               AnomalyDetector_predict(detector, out))
    /\ UNCHANGED <<detector, predictor, aqiVars, anomalyVars, serverVars, pureVars,
                   alertVars, validateVars, frameVars, cacheVars, batchVars>>

\* detector.predict_scores(X)
DetectorPredictScores ==
    /\ model_call = NoModelCall
    /\ \E n \in 1..MaxRows : \E out \in ScoreBatches(n) :
          model_call' = Called("detector", "predict_scores", out,
                               AnomalyDetector_predict_scores(detector, out))
    /\ UNCHANGED <<detector, predictor, aqiVars, anomalyVars, serverVars, pureVars,
                   alertVars, validateVars, frameVars, cacheVars, batchVars>>

\* detector.detect_anomalies(X)
DetectAnomalies ==
    /\ model_call = NoModelCall
    /\ \E n \in 1..MaxRows : \E out \in ScoreBatches(n) \cup LabelBatches(n) :
          model_call' = Called("detector", "detect_anomalies", out,
                               AnomalyDetector_detect_anomalies(detector, out))
    /\ UNCHANGED <<detector, predictor, aqiVars, anomalyVars, serverVars, pureVars,
                   alertVars, validateVars, frameVars, cacheVars, batchVars>>

\* predictor.predict(X)
PredictorPredict ==
    /\ model_call = NoModelCall
    /\ \E n \in 1..MaxRows : \E out \in ModelOutputs(n) :
          /\ \A i \in 1..n : out.scores[i] = Finite(-5) /\ out.labels[i] = 1
          /\ model_call' = Called("predictor", "predict", out,
                                  AQIPredictor_predict(predictor, out))
    /\ UNCHANGED <<detector, predictor, aqiVars, anomalyVars, serverVars, pureVars,
                   alertVars, validateVars, frameVars, cacheVars, batchVars>>

\* predictor.evaluate(X, y)
PredictorEvaluate ==
    /\ model_call = NoModelCall
    /\ \E n \in 1..MaxRows : \E out \in ModelOutputs(n) :
          /\ \A i \in 1..n : out.scores[i] = Finite(-5) /\ out.labels[i] = 1
          /\ model_call' = Called("predictor", "evaluate", out,
                                  AQIPredictor_evaluate(predictor, out))
    /\ UNCHANGED <<detector, predictor, aqiVars, anomalyVars, serverVars, pureVars,
                   alertVars, validateVars, frameVars, cacheVars, batchVars>>

\* the caller has taken the result (or the exception)
ModelReturn ==
    /\ model_call # NoModelCall
    /\ model_call' = NoModelCall
    /\ UNCHANGED <<detector, predictor, aqiVars, anomalyVars, serverVars, pureVars,
                   alertVars, validateVars, frameVars, cacheVars, batchVars>>

NextModels ==
    \/ DetectorFit \/ DetectorLoad \/ PredictorFit \/ PredictorLoad
    \/ DetectorPredict \/ DetectorPredictScores \/ DetectAnomalies
    \/ PredictorPredict \/ PredictorEvaluate \/ ModelReturn

SpecModels == InitModels /\ [][NextModels]_vars

-----------------------------------------------------------------------------
(* Frames given to a fitted DataPreprocessor, directly and by /predict     *)

\* preprocessors as fit_transform leaves them: the dropped id and time
\* columns are no features, every encoded column is a feature
FittedPreprocessors == {
    [feature_names |-> <<"temperature", "pm25", "hour_sin">>,
     columns_to_drop |-> {"sensorId", "timestamp"}, encoders |-> {}],
    [feature_names |-> <<"pm25", "aqi_category", "temperature">>,
     columns_to_drop |-> {"sensorId"}, encoders |-> {"aqi_category"}],
    [feature_names |-> <<"hour_sin", "location">>,
     columns_to_drop |-> {}, encoders |-> {"location"}] }

\* columns an input frame may have
ColumnPool == {
    Column("temperature", "num", "data"), Column("pm25", "num", "data"),
    Column("hour_sin", "num", "data"), Column("aqi_category", "obj", "data"),
    Column("sensorId", "obj", "data"), Column("extra", "num", "data"),
    Column("note", "obj", "data") }

\* frames of up to MaxCols columns with distinct names, in any order
Frames ==
    UNION {{X \in [1..n -> ColumnPool] : \A i, j \in 1..n : X[i] = X[j] => i = j} :
           n \in 0..MaxCols}

\* the orders in which a set can be iterated
Orders(S) ==
    {q \in [1..Cardinality(S) -> S] : \A i, j \in DOMAIN q : q[i] = q[j] => i = j}

InitFrame ==
    /\ preprocessor \in FittedPreprocessors
    /\ frame = NoFrame
    /\ AqiIdle /\ AnomalyIdle /\ ServerIdle /\ PureIdle /\ AlertIdle /\ ValidateIdle
    /\ ModelsIdle /\ CacheIdle /\ BatchIdle

\* X, _ = preprocessor.transform(df)
Transform ==
    /\ frame = NoFrame
    /\ \E df \in Frames : \E order \in Orders(missing_cols(preprocessor, df)) :
       \E strict \in BOOLEAN :
          frame' = [path |-> "transform", input |-> df, selected |-> df]
                      @@ transform(preprocessor, df, order, strict)
    /\ UNCHANGED <<preprocessor, aqiVars, anomalyVars, serverVars, pureVars, alertVars,
                   validateVars, modelsVars, cacheVars, batchVars>>

\* /predict lines 418-431 on the frame engineer_features returned
PredictFrame ==
    /\ frame = NoFrame
    /\ \E df_features \in Frames :
          LET selected == select_expected(preprocessor, df_features)
          IN  \E order \in Orders(missing_cols(preprocessor, selected)) :
              \E strict \in BOOLEAN :
                 frame' = [path |-> "predict", input |-> df_features,
                           selected |-> selected]
                             @@ transform(preprocessor, selected, order, strict)
    /\ UNCHANGED <<preprocessor, aqiVars, anomalyVars, serverVars, pureVars, alertVars,
                   validateVars, modelsVars, cacheVars, batchVars>>

\* the frame has been given to the model, or the exception to the caller
FrameReturn ==
    /\ frame # NoFrame
    /\ frame' = NoFrame
    /\ UNCHANGED <<preprocessor, aqiVars, anomalyVars, serverVars, pureVars, alertVars,
                   validateVars, modelsVars, cacheVars, batchVars>>

NextFrame == Transform \/ PredictFrame \/ FrameReturn

SpecFrame == InitFrame /\ [][NextFrame]_vars

-----------------------------------------------------------------------------
(* RealtimePredictor of serving/realtime_predictor.py                      *)
(* A value of a reading is its Python type and the text str() gives it, a  *)
(* sequence of characters; "x" stands for text that is no date.            *)

Val(type, text) == [type |-> type, text |-> text]

\* f"{reading['sensorId']}_{reading['timestamp']}"
generate_cache_key(rdg) == rdg.sensorId.text \o <<"_">> \o rdg.timestamp.text

\* pd.to_datetime(df['timestamp']) of engineer_features raises
to_datetime_raises(timestamp) == \E i \in DOMAIN timestamp.text : timestamp.text[i] = "x"

\* the EnsembleModel of the predictor: its component models are set or not
Ensemble(self) ==
    [weights |-> self.weights, anomaly_detector |-> self.models # NoReading,
     aqi_predictor |-> self.models # NoReading]

\* predict_single(reading): what the caller gets and the cache afterwards.
\* self.models gives what the fitted models return for the one-row frame
\* of a reading, which they compute from its metric values alone.
predict_single(self, rdg) ==
    IF ~({"sensorId", "timestamp"} \subseteq DOMAIN rdg)
    THEN [outcome |-> "KeyError", value |-> NoReading, cache |-> self.cache]
    ELSE LET cache_key == generate_cache_key(rdg)
         IN  IF cache_key \in DOMAIN self.cache
             THEN [outcome |-> "returned", value |-> self.cache[cache_key],
                   cache |-> self.cache]
             ELSE IF to_datetime_raises(rdg.timestamp)
             THEN [outcome |-> "ValueError", value |-> NoReading, cache |-> self.cache]
             ELSE LET result == EnsemblePredict(Ensemble(self),
                                    IF self.models = NoReading THEN NoOut
                                    ELSE self.models[rdg.pm25])
                  IN  [outcome |-> "returned", value |-> result,
                       cache |-> (cache_key :> result) @@ self.cache]

RtSensorIds == {Val("str", <<"s">>), Val("str", <<"s", "_", "x">>),
                Val("str", <<"7">>), Val("int", <<"7">>)}

RtTimestamps == {Val("str", <<"t">>), Val("datetime", <<"t">>),
                 Val("str", <<"x", "_", "t">>)}

RtPm25 == {10, 200}

\* readings given to predict_single, with and without the two key fields
RtReadings ==
    [sensorId : RtSensorIds, timestamp : RtTimestamps, pm25 : RtPm25]
        \cup [timestamp : RtTimestamps, pm25 : RtPm25]
        \cup [sensorId : RtSensorIds, pm25 : RtPm25]

\* what fitted models return for each metric value (a single row: the
\* label and the raw score do not reach the result)
RtModels ==
    [RtPm25 -> {[scores |-> <<Finite(-5)>>, labels |-> <<1>>, aqi_pred |-> <<a>>] :
                   a \in {Finite(20), Finite(260)}}]

\* after RealtimePredictor(), with or without ensemble.set_models(...)
InitCache ==
    /\ realtime \in [weights : {[anomaly |-> 5, aqi |-> 5], [anomaly |-> 4, aqi |-> 6]},
                     models : RtModels \cup {NoReading}, cache : {NoReading}]
    /\ rt_call = NoRtCall
    /\ AqiIdle /\ AnomalyIdle /\ ServerIdle /\ PureIdle /\ AlertIdle /\ ValidateIdle
    /\ ModelsIdle /\ FrameIdle /\ BatchIdle

\* predictor.predict_single(reading)
PredictSingle ==
    /\ rt_call = NoRtCall
    /\ Cardinality(DOMAIN realtime.cache) < MaxCached
    /\ \E r \in RtReadings :
          LET res == predict_single(realtime, r)
          IN  /\ rt_call' = [reading |-> r, outcome |-> res.outcome, value |-> res.value,
                            before |-> realtime.cache]
              /\ realtime' = [realtime EXCEPT !.cache = res.cache]
    /\ UNCHANGED <<aqiVars, anomalyVars, serverVars, pureVars, alertVars, validateVars,
                   modelsVars, frameVars, batchVars>>

\* the caller has the result or the exception
RtReturn ==
    /\ rt_call # NoRtCall
    /\ rt_call' = NoRtCall
    /\ UNCHANGED <<realtime, aqiVars, anomalyVars, serverVars, pureVars, alertVars,
                   validateVars, modelsVars, frameVars, batchVars>>

NextCache == PredictSingle \/ RtReturn

SpecCache == InitCache /\ [][NextCache]_vars

-----------------------------------------------------------------------------
(* The /predict/batch handler of model_server.py                           *)
(* What await predict(reading) does for a reading of the batch is drawn    *)
(* per reading: a PredictionResponse with its alerts_generated, or the     *)
(* HTTPException the outer except of /predict raises (lines 503-507).      *)

BatchSensorIds == {"s1", "s2"}

PredictOutcomes ==
    {[kind |-> "response", alerts_generated |-> n] : n \in 0..2}
        \cup {[kind |-> "HTTPException", alerts_generated |-> 0]}

\* the PredictionResponse of a reading (the fields the batch handler uses)
BatchResult(sensorId, outcome) ==
    [sensorId |-> sensorId, alerts_generated |-> outcome.alerts_generated]

\* one turn of the for loop: idx is the 0-based index of enumerate
batch_step(acc, idx, sensorId, outcome) ==
    IF outcome.kind = "response"
    THEN [acc EXCEPT !.results = Append(@, BatchResult(sensorId, outcome)),
                     !.total_alerts = @ + outcome.alerts_generated]
    ELSE [acc EXCEPT !.errors = Append(@, [index |-> idx, sensorId |-> sensorId,
                                           error |-> HTTP500.detail])]

\* the for loop from the k-th reading on
RECURSIVE batch_loop(_, _, _, _)
batch_loop(rs, outs, k, acc) ==
    IF k > Len(rs) THEN acc
    ELSE batch_loop(rs, outs, k + 1, batch_step(acc, k - 1, rs[k], outs[k]))

\* the dict the handler returns; errors is a list or None
BatchResponse(rs, acc) ==
    [predictions |-> acc.results,
     total |-> Len(rs),
     successful |-> Len(acc.results),
     failed |-> Len(acc.errors),
     alerts_generated |-> acc.total_alerts,
     errors |-> IF acc.errors # <<>> THEN [list |-> acc.errors] ELSE None]

\* variant: the loop ends at the first reading that fails
predict_batch_failfast(rs, outs) ==
    LET fails == {k \in DOMAIN rs : outs[k].kind # "response"}
        last == IF fails = {} THEN Len(rs)
                ELSE CHOOSE k \in fails : \A j \in fails : k <= j
    IN  BatchResponse(rs, batch_loop(SubSeq(rs, 1, last), outs, 1,
                          [results |-> <<>>, errors |-> <<>>, total_alerts |-> 0]))

\* predict_batch(readings): rs are the sensorIds of the readings, outs what
\* predict does for each
predict_batch(rs, outs) ==
    BatchResponse(rs, batch_loop(rs, outs, 1,
                      [results |-> <<>>, errors |-> <<>>, total_alerts |-> 0]))

InitBatch ==
    /\ batch = NoBatch
    /\ AqiIdle /\ AnomalyIdle /\ ServerIdle /\ PureIdle /\ AlertIdle /\ ValidateIdle
    /\ ModelsIdle /\ FrameIdle /\ CacheIdle

\* POST /predict/batch
PredictBatch ==
    /\ batch = NoBatch
    /\ \E n \in 0..MaxBatch : \E rs \in [1..n -> BatchSensorIds] :
       \E outs \in [1..n -> PredictOutcomes] :
          batch' = [outcome |-> "returned", readings |-> rs, outcomes |-> outs,
                    response |-> predict_batch(rs, outs)]
    /\ UNCHANGED <<aqiVars, anomalyVars, serverVars, pureVars, alertVars, validateVars,
                   modelsVars, frameVars, cacheVars>>

\* the response has been sent
BatchReturn ==
    /\ batch # NoBatch
    /\ batch' = NoBatch
    /\ UNCHANGED <<aqiVars, anomalyVars, serverVars, pureVars, alertVars, validateVars,
                   modelsVars, frameVars, cacheVars>>

NextBatch == PredictBatch \/ BatchReturn

SpecBatch == InitBatch /\ [][NextBatch]_vars

-----------------------------------------------------------------------------
(* Properties of calculate_aqi_from_pm25 (SpecAqi)                         *)

AqiReturned == aqi # NoAqi /\ prev_aqi # NoAqi

\* C3: calculate_aqi_from_pm25 is monotonically non-decreasing in PM2.5:
\* for two calls with arguments a <= b at 0.01 resolution the AQI returned
\* for a is <= the AQI returned for b.
C3_AqiMonotone ==
    (AqiReturned /\ prev_pm25 <= pm25) => prev_aqi[1] <= aqi[1]

\* C6: each band's breakpoints map exactly: pm25_low gives aqi_low and
\* pm25_high gives aqi_high with that band's category (12.0 -> 50 Good,
\* 35.4 -> 100 Moderate), and every PM2.5 >= 500.4 gives 500 Hazardous.
C6_BreakpointsExact ==
    aqi # NoAqi =>
        /\ \A i \in DOMAIN AQI_BREAKPOINTS :
              LET bp == AQI_BREAKPOINTS[i]
              IN  /\ pm25 = bp.pm25_low => aqi = <<bp.aqi_low, bp.category>>
                  /\ pm25 = bp.pm25_high => aqi = <<bp.aqi_high, bp.category>>
        /\ pm25 = 1200 => aqi = <<50, "Good">>
        /\ pm25 = 3540 => aqi = <<100, "Moderate">>
        /\ pm25 >= 50040 => aqi = <<500, "Hazardous">>

C6_Witness == pm25 = 3540 /\ aqi = <<100, "Moderate">> /\ prev_pm25 = 3539

\* C16: for every PM2.5 with 0 <= PM2.5 <= 500.4, at any resolution, the
\* function locates one band containing the value and returns that band's
\* interpolation, rounded, with that band's category; 500 Hazardous without
\* interpolation is returned only above 500.4, and (0, Invalid) only below 0.
C16_BandLocated ==
    aqi # NoAqi =>
        /\ (0 <= pm25 /\ pm25 <= 50040) =>
              \E i \in DOMAIN AQI_BREAKPOINTS :
                 LET bp == AQI_BREAKPOINTS[i]
                 IN  /\ bp.pm25_low <= pm25 /\ pm25 <= bp.pm25_high
                     /\ aqi = <<Interpolate(bp, pm25), bp.category>>
        /\ pm25 > 50040 => aqi = <<500, "Hazardous">>
        /\ pm25 < 0 => aqi = <<0, "Invalid">>

-----------------------------------------------------------------------------
(* Properties of calculate_anomaly_score (SpecAnomaly)                     *)

ScoresReturned == score # NoScore /\ prev_score # NoScore

OnlyDiffer(metric) == \A m \in Metrics \ {metric} : prev_reading[m] = reading[m]

InNormalRange(m, v) == NORMAL_RANGES[m].min <= v /\ v <= NORMAL_RANGES[m].max

MidNormal(m) == (NORMAL_RANGES[m].min + NORMAL_RANGES[m].max) \div 2

\* C4: holding the other five metrics fixed, the anomaly score is
\* non-decreasing in PM2.5 above the normal band (35 < a <= b), also across
\* the boost threshold at 50 and the critical bound 500.
C4_AnomalyMonotoneInPm25 ==
    (/\ ScoresReturned
     /\ OnlyDiffer("pm25")
     /\ 3500 < prev_reading.pm25
     /\ prev_reading.pm25 <= reading.pm25)
    => FracLe(prev_score.anomaly_score, score.anomaly_score)

C4_Witness ==
    /\ ScoresReturned
    /\ OnlyDiffer("pm25")
    /\ prev_reading.pm25 = 5000 /\ reading.pm25 = 5001
    /\ reading.pm10 = 76 /\ reading.co2 = 1200 /\ reading.voc = 60
    /\ prev_score.anomaly_score.num < score.anomaly_score.num

AllMidNormal == \A m \in Metrics : reading[m] = MidNormal(m)

AtOrBeyondCritical(m, v) ==
    v <= NORMAL_RANGES[m].critical_min \/ v >= NORMAL_RANGES[m].critical_max

\* at or beyond a critical bound that lies outside the normal range, or
\* strictly beyond one that coincides with the normal bound
BeyondNormalToCritical(m, v) ==
    \/ v >= NORMAL_RANGES[m].critical_max
    \/ v < NORMAL_RANGES[m].critical_min
    \/ v = NORMAL_RANGES[m].critical_min /\ NORMAL_RANGES[m].critical_min < NORMAL_RANGES[m].min

\* C7 as stated: score 0 and no anomaly at the midpoint of every normal
\* range; score 1 and an anomaly whenever each metric is at or beyond one of
\* its critical bounds, critical_min or critical_max, for every metric.
C7_MidAndCriticalAsStated ==
    score # NoScore =>
        /\ AllMidNormal => score.anomaly_score = Frac(0, 1000) /\ ~score.is_anomaly
        /\ (\A m \in Metrics : AtOrBeyondCritical(m, reading[m]))
              => score.anomaly_score = Frac(1000, 1000) /\ score.is_anomaly

\* C7 amended: score 0 and no anomaly at the midpoint of every normal range;
\* score 1 and an anomaly whenever each metric is at or above critical_max,
\* at or below a critical_min that is below the normal minimum (temperature,
\* humidity, co2), or strictly below the critical_min 0 of voc, pm25, pm10.
C7_MidAndCritical ==
    score # NoScore =>
        /\ AllMidNormal => score.anomaly_score = Frac(0, 1000) /\ ~score.is_anomaly
        /\ (\A m \in Metrics : BeyondNormalToCritical(m, reading[m]))
              => score.anomaly_score = Frac(1000, 1000) /\ score.is_anomaly

C7_Witness ==
    /\ score # NoScore
    /\ \A m \in Metrics : BeyondNormalToCritical(m, reading[m])
    /\ reading.temperature = 0 /\ reading.humidity = 90 /\ reading.co2 = 5000
    /\ reading.voc = -10 /\ reading.pm25 = 50000 /\ reading.pm10 = 600
    /\ score.anomaly_score = Frac(1000, 1000)

\* C8: with CO2 = 1200 and temperature, humidity, PM2.5, PM10 inside their
\* normal ranges, the score with VOC = 0.6 is strictly greater than the
\* score with any normal VOC (0 <= VOC <= 0.5).
C8_CombinedBoostStrict ==
    (/\ ScoresReturned
     /\ OnlyDiffer("voc")
     /\ reading.co2 = 1200
     /\ \A m \in {"temperature", "humidity", "pm25", "pm10"} : InNormalRange(m, reading[m])
     /\ reading.voc = 60
     /\ InNormalRange("voc", prev_reading.voc))
    => ~FracLe(score.anomaly_score, prev_score.anomaly_score)

C8_Witness ==
    /\ ScoresReturned
    /\ OnlyDiffer("voc")
    /\ reading.co2 = 1200 /\ reading.voc = 60 /\ prev_reading.voc = 50
    /\ reading.temperature = 15 /\ reading.humidity = 70 /\ reading.pm10 = 50
    /\ reading.pm25 = 1750
    /\ score.anomaly_score = Frac(165, 1000) /\ prev_score.anomaly_score = Frac(8, 1000)

-----------------------------------------------------------------------------
(* Properties of the /predict handler and make_prediction (Spec)           *)

Responded == response # NoReading

RuleBranch == response.branch \in {"fallback", "rule_based"}

Bounded(x) ==
    /\ In01(x.anomaly_score)
    /\ 0 <= x.predicted_aqi /\ x.predicted_aqi <= 500

\* C1: for every reading with finite metric values (negative values and
\* PM2.5 between two bands included), make_prediction and every branch of
\* /predict return anomaly_score in [0,1] and predicted_aqi in [0,500].
C1_BoundedOutputs ==
    Responded =>
        /\ Bounded(response)
        /\ RuleBranch => Bounded(results)

C1_Witness ==
    /\ Responded
    /\ response.branch = "trained"
    /\ model_out.aqi_pred[1] = Finite(650)
    /\ request.pm25 = 1205 /\ request.temperature = -5 /\ request.voc = -10
    /\ response.predicted_aqi = 500
    /\ response.anomaly_score = Frac(500, 1000)

FourTiers == {"LOW", "MODERATE", "HIGH", "CRITICAL"}

AqiPrimaryTiers == {"LOW", "MEDIUM", "HIGH", "CRITICAL"}

\* C2 as stated: on every path that produces an assessment (make_prediction,
\* the /predict branches through calculate_risk_level, EnsembleModel.predict)
\* the risk_level is one of LOW, MODERATE, HIGH, CRITICAL.
C2_RiskLevelAsStated ==
    Responded =>
        /\ response.risk_level \in FourTiers
        /\ results.risk_level \in FourTiers

\* C2 amended: the risk_level is one of LOW, MEDIUM, HIGH, CRITICAL on the
\* paths through calculate_risk_level (make_prediction and every /predict
\* branch) and one of LOW, MODERATE, HIGH, CRITICAL from EnsembleModel.predict.
C2_RiskLevelNames ==
    Responded =>
        /\ response.risk_level \in AqiPrimaryTiers
        /\ RuleBranch => results.risk_level \in AqiPrimaryTiers
        /\ response.branch = "trained" => results.risk_level \in FourTiers

C2_Witness ==
    /\ Responded
    /\ response.branch = "trained"
    /\ response.risk_level = "MEDIUM"
    /\ results.risk_level = "MODERATE"

\* C9: a strong anomaly forces at least HIGH whatever the AQI: with
\* is_anomaly true and anomaly_score >= 0.7 the risk_level that /predict
\* returns from calculate_risk_level is HIGH or CRITICAL, also at AQI 20.
C9_StrongAnomalyAtLeastHigh ==
    (Responded /\ response.is_anomaly /\ FracGe(response.anomaly_score, 7, 10))
    => response.risk_level \in {"HIGH", "CRITICAL"}

TierIndex(level) ==
    CASE level = "LOW" -> 0
      [] level = "MEDIUM" -> 1
      [] level = "HIGH" -> 2
      [] level = "CRITICAL" -> 3

\* tiers to add for an anomaly score: 1 in [0.4, 0.7), 2 from 0.7
Escalation(anomaly_score) ==
    IF FracGe(anomaly_score, 7, 10) THEN 2
    ELSE IF FracGe(anomaly_score, 4, 10) THEN 1
    ELSE 0

AqiSamples == {0, 50, 51, 100, 101, 150, 151, 200, 201, 300, 301, 500}

ScoreSamples == {Frac(0, 100), Frac(39, 100), Frac(40, 100), Frac(69, 100), Frac(70, 100),
                 Frac(100, 100)}

\* C20: in calculate_risk_level, relative to the level for the same AQI with
\* an anomaly score below 0.4, a score in [0.4, 0.7) raises the level by
\* exactly one tier and a score >= 0.7 by exactly two tiers, capped at
\* CRITICAL, for every AQI in [0,500]; the level never decreases when the
\* AQI or the anomaly score increases.
C20_EscalationByTiers ==
    Responded =>
        /\ TierIndex(response.risk_level)
              = Min2(TierIndex(calculate_risk_level(response.predicted_aqi, Frac(0, 1)))
                        + Escalation(response.anomaly_score), 3)
        /\ \A q \in AqiSamples : \A a \in ScoreSamples :
              (q >= response.predicted_aqi /\ FracLe(response.anomaly_score, a))
                 => TierIndex(calculate_risk_level(q, a)) >= TierIndex(response.risk_level)

\* the detector is usable and the predictor is not: the predictor failed to
\* load, or it raised after the detector had scored the request
DetectorOnly ==
    /\ anomaly_detector = "loaded"
    /\ \/ aqi_predictor = "None"
       \/ response.branch = "fallback" /\ model_out.scores # <<>> /\ model_out.aqi_pred = <<>>

\* the predictor is usable and the detector is not
PredictorOnly == aqi_predictor = "loaded" /\ anomaly_detector = "None"

\* the response carries the per-metric breakdown of calculate_anomaly_score
AnomalyRuleBased == response.details # None

\* the AQI comes with the category of calculate_aqi_from_pm25
AqiRuleBased == "aqi_category" \in DOMAIN results

\* C13: anomaly scoring and AQI estimation fall back independently: when
\* exactly one trained artifact is absent or fails to load or to predict,
\* only that sub-component's output is rule-based and the other output still
\* comes from its trained model.
C13_IndependentFallback ==
    Responded =>
        /\ DetectorOnly => ~AnomalyRuleBased /\ AqiRuleBased
        /\ PredictorOnly => AnomalyRuleBased /\ ~AqiRuleBased

\* C26: in the trained branch of /predict the rule-based score, flag and
\* per-metric details are used exactly when the model's anomaly score is 0;
\* otherwise the model's score is returned with is_anomaly = (score >= 0.3)
\* and no details; in both cases predicted_aqi is the regressor's (clamped)
\* value; only an exception in the model branch makes both outputs
\* rule-based.
C26_TrainedBranchOutputs ==
    Responded =>
        LET rule == calculate_anomaly_score(request)
            m == Get(results, "anomaly_score", Frac(0, 1))
        IN  /\ response.branch = "trained" =>
                  /\ model_out.aqi_pred # <<>>
                  /\ response.predicted_aqi = results.predicted_aqi
                  /\ results.predicted_aqi = Clip(nan_to_num(model_out.aqi_pred[1]), 0, 500)
                  /\ m.num = 0 =>
                        /\ response.anomaly_score = rule.anomaly_score
                        /\ response.is_anomaly = rule.is_anomaly
                        /\ response.details = rule.anomaly_details
                  /\ m.num # 0 =>
                        /\ response.anomaly_score = m
                        /\ response.is_anomaly = FracGe(m, 3, 10)
                        /\ response.details = None
            /\ response.branch = "fallback" =>
                  /\ model_out.aqi_pred = <<>>
                  /\ response.predicted_aqi = calculate_aqi_from_pm25(request.pm25)[1]
                  /\ response.anomaly_score = rule.anomaly_score
                  /\ response.is_anomaly = rule.is_anomaly
                  /\ response.details = rule.anomaly_details

C26_Witness ==
    /\ Responded
    /\ response.branch = "trained"
    /\ request.pm25 = 1500
    /\ model_out.aqi_pred[1] = Finite(260)
    /\ response.predicted_aqi = 260
    /\ results.anomaly_score = Frac(0, 1)
    /\ response.anomaly_score = Frac(500, 1000)
    /\ response.details # None

\* C28: the frame of a /predict request has one row, for which
\* predict_scores returns 0 whatever the raw score; so in the trained branch
\* the model anomaly score is 0 and the reported anomaly_score and is_anomaly
\* are those of calculate_anomaly_score, whatever the detector's raw score
\* or -1 / 1 label.
C28_SingleRowUsesRules ==
    (Responded /\ response.branch = "trained") =>
        /\ Len(model_out.scores) = 1
        /\ predict_scores(model_out.scores)[1] = Frac(0, 1)
        /\ results.anomaly_score = Frac(0, 1)
        /\ response.anomaly_score = calculate_anomaly_score(request).anomaly_score
        /\ response.is_anomaly = calculate_anomaly_score(request).is_anomaly

C28_Witness ==
    /\ Responded
    /\ response.branch = "trained"
    /\ model_out.scores = <<Finite(-8)>>
    /\ model_out.labels = <<1>>
    /\ response.is_anomaly
    /\ response.anomaly_score = Frac(1000, 1000)

-----------------------------------------------------------------------------
(* Properties of EnsembleModel.predict (SpecEnsemble)                      *)

EnsembleReturned == results # NoReading

\* C10: when the detector flags the first row but the clipped anomaly score
\* is below 0.3, the returned is_anomaly is false and risk_level is the tier
\* of the combined risk score (LOW or MODERATE when that score is below 0.6),
\* never the forced HIGH; every result with is_anomaly has a score >= 0.3.
C10_WeakAnomalyRejected ==
    (EnsembleReturned /\ ensemble_model.anomaly_detector) =>
        /\ (model_out.labels[1] = -1 /\ FracLt(results.anomaly_score, 3, 10)) =>
              /\ ~results.is_anomaly
              /\ results.risk_level = classify_risk(results.risk_score)
              /\ FracLt(results.risk_score, 6, 10) => results.risk_level \in {"LOW", "MODERATE"}
        /\ results.is_anomaly => FracGe(results.anomaly_score, 3, 10)

C10_Witness ==
    /\ EnsembleReturned
    /\ ensemble_model.anomaly_detector /\ ensemble_model.aqi_predictor
    /\ model_out.labels[1] = -1
    /\ results.anomaly_score = Frac(1, 4)
    /\ results.predicted_aqi = 20
    /\ ~results.is_anomaly
    /\ results.risk_level = "LOW"

\* LOW below 0.3, MODERATE below 0.6, HIGH below 0.8, else CRITICAL
ScoreTier(f) ==
    IF FracLt(f, 3, 10) THEN "LOW"
    ELSE IF FracLt(f, 6, 10) THEN "MODERATE"
    ELSE IF FracLt(f, 8, 10) THEN "HIGH"
    ELSE "CRITICAL"

FracEq(f, g) == f.num * g.den = g.num * f.den

\* clamp(anomaly_score * weight_anomaly + min(AQI / 500, 1) * weight_aqi, 0, 1)
\* of the returned anomaly_score and predicted_aqi (0 when absent), weights
\* in tenths
CombinedScore ==
    LET a  == Get(results, "anomaly_score", Frac(0, 1))
        q  == Get(results, "predicted_aqi", 0)
        wa == Get(ensemble_model.weights, "anomaly", 5)
        wq == Get(ensemble_model.weights, "aqi", 5)
        n  == a.num * wa * 500 + Min2(q, 500) * wq * a.den
        d  == a.den * 5000
    IN  IF n < 0 THEN Frac(0, 1) ELSE IF n > d THEN Frac(1, 1) ELSE Frac(n, d)

\* C19 as stated: for every input the risk_level returned by
\* EnsembleModel.predict is the tier of its combined risk score: LOW below
\* 0.3, MODERATE below 0.6, HIGH below 0.8, CRITICAL otherwise, the score
\* being clamp(anomaly_score * w_anomaly + min(AQI/500, 1) * w_aqi, 0, 1).
C19_TierOfScoreAsStated ==
    EnsembleReturned =>
        /\ FracEq(results.risk_score, CombinedScore)
        /\ results.risk_level = ScoreTier(results.risk_score)

\* C19 amended: the risk_score is that clamped combination; the risk_level
\* is the tier of the score whenever the returned is_anomaly is false or
\* absent, and is HIGH whenever is_anomaly is true, whatever the score.
C19_TierUnlessAnomaly ==
    EnsembleReturned =>
        /\ FracEq(results.risk_score, CombinedScore)
        /\ results.risk_level = IF Get(results, "is_anomaly", FALSE) THEN "HIGH"
                                ELSE ScoreTier(results.risk_score)

C19_Witness ==
    /\ EnsembleReturned
    /\ ensemble_model.anomaly_detector /\ ensemble_model.aqi_predictor
    /\ ensemble_model.weights = [anomaly |-> 4, aqi |-> 6]
    /\ results.is_anomaly
    /\ results.predicted_aqi = 500
    /\ FracGe(results.risk_score, 8, 10)
    /\ results.risk_level = "HIGH"

-----------------------------------------------------------------------------
(* Properties of repeated make_prediction calls (SpecPure)                 *)

-----------------------------------------------------------------------------
(* Properties of alerting (SpecAlert)                                      *)

AlertChecked == results # NoReading /\ alert_outcome.kind \in {"returned", "raised"}

SentWith(alert_type, severities) ==
    \E i \in DOMAIN alerts : alerts[i].type = alert_type /\ alerts[i].severity \in severities

CriticalReading ==
    [temperature |-> 50, humidity |-> 95, co2 |-> 5000, voc |-> 500, pm25 |-> 50000,
     pm10 |-> 600]

NormalReading ==
    [temperature |-> 25, humidity |-> 50, co2 |-> 500, voc |-> 30, pm25 |-> 1500,
     pm10 |-> 25]

\* C11: for the reading {temperature 50, humidity 95, co2 5000, voc 5.0,
\* pm25 500, pm10 600} the engine yields anomaly_score 1.0, predicted_aqi 500
\* Hazardous, risk_level CRITICAL, and the alert decision emits at least two
\* alerts, an ANOMALY_DETECTED and an AQI_HIGH, each with severity CRITICAL
\* or DANGER.
C11_CriticalScenario ==
    (AlertChecked /\ request = CriticalReading) =>
        /\ results.anomaly_score = Frac(1000, 1000)
        /\ results.predicted_aqi = 500 /\ results.aqi_category = "Hazardous"
        /\ results.risk_level = "CRITICAL"
        /\ Len(alerts) >= 2
        /\ SentWith("ANOMALY_DETECTED", {"CRITICAL", "DANGER"})
        /\ SentWith("AQI_HIGH", {"CRITICAL", "DANGER"})

\* C12: for the reading {temperature 25, humidity 50, co2 500, voc 0.3,
\* pm25 15, pm10 25} the engine yields anomaly_score 0 with is_anomaly false,
\* predicted_aqi 57 Moderate, risk_level LOW (or MODERATE), and the alert
\* decision emits no alert when the AQI warning threshold is 100.
C12_NormalScenario ==
    (AlertChecked /\ request = NormalReading) =>
        /\ results.anomaly_score.num = 0 /\ ~results.is_anomaly
        /\ results.predicted_aqi = 57 /\ results.aqi_category = "Moderate"
        /\ results.risk_level \in {"LOW", "MODERATE"}
        /\ alert_config.warning = 100 => alerts = <<>>

C12_Witness ==
    /\ AlertChecked
    /\ request = NormalReading
    /\ alert_config.warning = 100
    /\ results.risk_level = "LOW"
    /\ alerts = <<>>
    /\ alert_outcome.kind = "returned"

\* C14: a failed alert delivery is never fatal and never changes the
\* assessment: whatever status or exception the webhook answers, send_alert
\* and check_and_alert return without raising; in /predict, whatever the
\* alerting service does (an exception included), a response is returned
\* whose predicted_aqi, anomaly_score, is_anomaly and risk_level are those
\* computed before alerting, from the one prediction made for the request.
C14_DeliveryFailureNotFatal ==
    /\ AlertChecked =>
          /\ alert_outcome.kind = "returned"
          /\ \A i \in DOMAIN alerts : ~alerts[i].raised
    /\ response # NoReading =>
          /\ "status_code" \notin DOMAIN response
          /\ results = make_prediction(request)
          /\ response.predicted_aqi = results.predicted_aqi
          /\ response.anomaly_score = results.anomaly_score
          /\ response.is_anomaly = results.is_anomaly
          /\ response.risk_level = results.risk_level
          /\ alert_outcome.kind \in {"raise", "none", "not called"}
                => response.alerts_generated = 0

C14_Witness ==
    /\ AlertChecked
    /\ Len(alerts) = 2
    /\ alerts[1].outcome = Raises("Timeout") /\ alerts[1].log = "error"
    /\ alerts[2].outcome = Status(500) /\ alerts[2].log = "error"
    /\ alerts[2].type = "AQI_HIGH"
    /\ alert_outcome.kind = "returned"

Attempted(alert_type) == \E i \in DOMAIN alerts : alerts[i].type = alert_type

\* C23: check_and_alert attempts an ANOMALY_DETECTED alert exactly when
\* is_anomaly is true and an AQI_HIGH alert exactly when predicted_aqi is
\* strictly above the warning threshold; the two are independent, so a call
\* attempts zero, one or two alerts, and whatever the webhook answers to the
\* ANOMALY_DETECTED alert the AQI_HIGH alert is still attempted.
C23_IndependentTriggers ==
    AlertChecked =>
        /\ Attempted("ANOMALY_DETECTED") <=> results.is_anomaly
        /\ Attempted("AQI_HIGH") <=> results.predicted_aqi > alert_config.warning
        /\ Len(alerts) = (IF results.is_anomaly THEN 1 ELSE 0)
                           + (IF results.predicted_aqi > alert_config.warning THEN 1 ELSE 0)
        /\ \A i \in DOMAIN alerts : alerts[i].type \in {"ANOMALY_DETECTED", "AQI_HIGH"}

C23_Witness ==
    /\ AlertChecked
    /\ Len(alerts) = 2
    /\ alerts[1].type = "ANOMALY_DETECTED" /\ alerts[1].outcome = Status(404)
    /\ alerts[2].type = "AQI_HIGH" /\ alerts[2].outcome = Status(201)
    /\ alerts[2].log = "info"

\* C24: with warning <= danger <= emergency, an AQI_HIGH alert carries the
\* severity of the highest threshold crossed: CRITICAL at or above emergency,
\* otherwise DANGER at or above danger, otherwise WARNING, never INFO; every
\* payload is created with resolved = false.
C24_SeverityOfHighestThreshold ==
    (AlertChecked /\ alert_config.warning <= alert_config.danger
                  /\ alert_config.danger <= alert_config.emergency) =>
        \A i \in DOMAIN alerts :
           /\ alerts[i].resolved = FALSE
           /\ alerts[i].type = "AQI_HIGH" =>
                 /\ alerts[i].severity # "INFO"
                 /\ alerts[i].severity =
                       (IF results.predicted_aqi >= alert_config.emergency THEN "CRITICAL"
                        ELSE IF results.predicted_aqi >= alert_config.danger THEN "DANGER"
                        ELSE "WARNING")

C24_Witness ==
    /\ AlertChecked
    /\ alert_config = [warning |-> 50, danger |-> 100, emergency |-> 150]
    /\ results.predicted_aqi = 112
    /\ Len(alerts) = 1
    /\ alerts[1].type = "AQI_HIGH" /\ alerts[1].severity = "DANGER"
    /\ alerts[1].resolved = FALSE

-----------------------------------------------------------------------------
(* Properties of readings with missing metrics (SpecValidate)              *)

LacksCore(r) == RequiredFields \ DOMAIN r # {}

\* C15: a reading that lacks any of temperature, humidity, co2 or pm25 is
\* rejected before scoring: make_prediction produces no anomaly score, AQI
\* or risk level for it, and validate_real_time reports it invalid.
C15_MissingCoreRejected ==
    /\ (call # NoCall /\ LacksCore(call.reading)) =>
          DOMAIN call.result \cap {"anomaly_score", "predicted_aqi", "risk_level"} = {}
    /\ (validation # NoValidation /\ LacksCore(validation.reading)) =>
          ~validation.is_valid /\ validation.errors # {}

-----------------------------------------------------------------------------
(* Properties of the per-metric score and the anomaly flag (SpecMetric)    *)

\* C17: for each metric and every value the per-metric score (reported in
\* thousandths) is 0 inside [min, max], exactly 1 beyond the critical bound
\* on either side, and otherwise the linear fraction of the distance from
\* the normal bound to the critical bound; it is in [0,1], and a quotient is
\* formed only over a non-zero distance (never for a value below the normal
\* minimum of voc, pm25 or pm10, whose critical minimum is the same 0).
C17_PerMetricScore ==
    score # NoScore =>
        \A m \in DOMAIN reading :
            LET v  == reading[m]
                rg == NORMAL_RANGES[m]
                d  == score.anomaly_details[m]
            IN  /\ 0 <= d /\ d <= 1000
                /\ InNormalRange(m, v) => d = 0
                /\ (v > rg.critical_max \/ v < rg.critical_min) => d = 1000
                /\ (rg.max < v /\ v <= rg.critical_max) =>
                      /\ rg.critical_max - rg.max > 0
                      /\ d = RoundHalfEven((v - rg.max) * 1000, rg.critical_max - rg.max)
                /\ (rg.critical_min <= v /\ v < rg.min) =>
                      /\ rg.min - rg.critical_min > 0
                      /\ m \notin {"voc", "pm25", "pm10"}
                      /\ d = RoundHalfEven((rg.min - v) * 1000, rg.min - rg.critical_min)

C17_Witness ==
    /\ score # NoScore
    /\ DOMAIN reading = {"temperature"}
    /\ reading.temperature = 10
    /\ score.anomaly_details.temperature = 333
    /\ score.anomaly_score = Frac(333, 1000)
    /\ score.is_anomaly

\* C18: in every result of calculate_anomaly_score (and so of the rule-based
\* /predict paths that return it) is_anomaly is true exactly when the
\* returned anomaly_score, rounded to three decimals, is >= 0.3.
C18_FlagMatchesScore ==
    score # NoScore => (score.is_anomaly <=> FracGe(score.anomaly_score, 3, 10))

-----------------------------------------------------------------------------
(* Properties of AnomalyDetector and AQIPredictor (SpecModels)             *)

ScoresReturnedBy(op) ==
    /\ model_call.target = "detector"
    /\ model_call.op = op
    /\ model_call.outcome = "returned"

\* the raw scores are all equal, or one of them is NaN
DegenerateRange(raw) ==
    \/ \E i \in DOMAIN raw : raw[i].kind = "nan"
    \/ \A i, j \in DOMAIN raw : raw[i] = raw[j]

\* C22: predict_scores returns one value per row, each a number in [0, 1]
\* (never NaN or infinite); when the raw scores are all equal or their range
\* is NaN every value is 0; otherwise the lowest raw score gets exactly 1,
\* the highest exactly 0, and the order of the raw scores is reversed.
C22_NormalizedScores ==
    ScoresReturnedBy("predict_scores") =>
        LET raw == model_call.raw.scores
            val == model_call.value
        IN  /\ DOMAIN val = DOMAIN raw
            /\ \A i \in DOMAIN val : In01(val[i])
            /\ DegenerateRange(raw) => \A i \in DOMAIN val : val[i] = Frac(0, 1)
            /\ ~DegenerateRange(raw) =>
                  \A i \in DOMAIN raw :
                     /\ (\A j \in DOMAIN raw : raw[i].v <= raw[j].v) => val[i].num = val[i].den
                     /\ (\A j \in DOMAIN raw : raw[i].v >= raw[j].v) => val[i].num = 0
                     /\ \A j \in DOMAIN raw :
                           raw[i].v < raw[j].v => ~FracLe(val[i], val[j])

C22_Witness ==
    /\ ScoresReturnedBy("predict_scores")
    /\ model_call.raw.scores = <<Finite(-8), Finite(-4), Finite(-6)>>
    /\ model_call.value = <<Frac(4, 4), Frac(0, 4), Frac(2, 4)>>

GuardedOps == {"predict", "predict_scores", "detect_anomalies", "evaluate"}

Instance(target) == IF target = "detector" THEN detector ELSE predictor

-----------------------------------------------------------------------------
(* Properties of the frame that reaches a trained model (SpecFrame)        *)

FrameReady == frame.path \in {"transform", "predict"} /\ frame.outcome = "returned"

\* the input column survives to the model: it is not one of the dropped id
\* and time columns and is numeric or has a fitted encoder
Usable(c) ==
    /\ c.name \notin preprocessor.columns_to_drop
    /\ c.dtype = "num" \/ c.name \in preprocessor.encoders

\* C25: for any set and order of input columns the frame that reaches a
\* trained model has exactly the fitted feature_names in the fitted order:
\* transform drops every column that is no feature, adds every missing
\* feature filled with 0 and reorders; /predict back-fills the missing
\* expected columns (0.0, "unknown" for aqi_category and location) and
\* selects expected_features in order before it calls transform.
C25_FittedColumnsInOrder ==
    FrameReady =>
        /\ ColNames(frame.output) = preprocessor.feature_names
        /\ \A k \in DOMAIN frame.output : frame.output[k].dtype = "num"
        /\ \A k \in DOMAIN frame.output :
              LET name == frame.output[k].name
                  given == {c \in {frame.selected[i] : i \in DOMAIN frame.selected} :
                               c.name = name /\ Usable(c)}
              IN  IF given = {} THEN frame.output[k].fill = "zero"
                  ELSE \E c \in given : frame.output[k].fill = c.fill
        /\ frame.path = "predict" =>
              /\ ColNames(frame.selected) = preprocessor.feature_names
              /\ \A k \in DOMAIN frame.selected :
                    LET c == frame.selected[k]
                    IN  \/ c \in {frame.input[i] : i \in DOMAIN frame.input}
                              /\ c.name \notin target_cols
                        \/ c = (IF c.name \in {"aqi_category", "location"}
                                 THEN Column(c.name, "obj", "unknown")
                                 ELSE Column(c.name, "num", "zero"))

C25_Witness ==
    /\ FrameReady
    /\ frame.path = "transform"
    /\ preprocessor.feature_names = <<"temperature", "pm25", "hour_sin">>
    /\ ColNames(frame.input) = <<"sensorId", "temperature", "pm25">>
    /\ frame.output = <<Column("temperature", "num", "data"), Column("pm25", "num", "data"),
                        Column("hour_sin", "num", "zero")>>

-----------------------------------------------------------------------------
(* Properties of RealtimePredictor.predict_single (SpecCache)              *)

\* the same call on a predictor whose cache is empty
Uncached(self, rdg) == predict_single([self EXCEPT !.cache = NoReading], rdg)

\* C27: the memoization cache is transparent: the result predict_single
\* returns for a reading (or the exception it raises) is the one the
\* computation without the cache gives for that reading, also for two
\* readings with the same sensorId and timestamp and other metric values
\* and for different (sensorId, timestamp) pairs with the same key string.
C27_CacheTransparent ==
    rt_call # NoRtCall =>
        LET uncached == Uncached(realtime, rt_call.reading)
        IN  /\ rt_call.outcome = uncached.outcome
            /\ rt_call.value = uncached.value

-----------------------------------------------------------------------------
(* Properties of /predict/batch (SpecBatch)                                *)

\* the members of a set of numbers in increasing order
Ascending(S) ==
    CHOOSE q \in [1..Cardinality(S) -> S] : \A i, j \in DOMAIN q : i < j => q[i] < q[j]

RECURSIVE SumOver(_, _)
SumOver(S, f) ==
    IF S = {} THEN 0
    ELSE LET k == CHOOSE x \in S : TRUE IN f[k] + SumOver(S \ {k}, f)

\* C29: /predict/batch accounts for each reading exactly once and in order:
\* the predictions are the responses of the readings predict succeeded on,
\* in input order, the errors carry the 0-based input index and sensorId of
\* each reading it failed on, in input order, also for readings that come
\* after a failure; successful + failed = total = the number of readings,
\* and alerts_generated is the sum of the alerts_generated of the
\* successful predictions.
C29_BatchAccounting ==
    batch # NoBatch =>
        LET rs == batch.readings
            outs == batch.outcomes
            resp == batch.response
            ok == Ascending({k \in DOMAIN rs : outs[k].kind = "response"})
            ko == Ascending({k \in DOMAIN rs : outs[k].kind # "response"})
            errs == IF resp.errors = None THEN <<>> ELSE resp.errors.list
        IN  /\ resp.total = Len(rs)
            /\ resp.successful + resp.failed = resp.total
            /\ resp.successful = Len(resp.predictions)
            /\ resp.failed = Len(errs)
            /\ Len(resp.predictions) = Len(ok)
            /\ \A i \in DOMAIN ok :
                  /\ resp.predictions[i].sensorId = rs[ok[i]]
                  /\ resp.predictions[i].alerts_generated = outs[ok[i]].alerts_generated
            /\ Len(errs) = Len(ko)
            /\ \A i \in DOMAIN ko :
                  /\ errs[i].index = ko[i] - 1
                  /\ errs[i].sensorId = rs[ko[i]]
            /\ resp.alerts_generated =
                  SumOver({k \in DOMAIN rs : outs[k].kind = "response"},
                          [k \in DOMAIN rs |-> outs[k].alerts_generated])

C29_Witness ==
    /\ batch # NoBatch
    /\ batch.readings = <<"s1", "s2", "s1">>
    /\ batch.outcomes[1] = [kind |-> "response", alerts_generated |-> 2]
    /\ batch.outcomes[2].kind = "HTTPException"
    /\ batch.outcomes[3] = [kind |-> "response", alerts_generated |-> 1]
    /\ batch.response.successful = 2
    /\ batch.response.failed = 1
    /\ batch.response.alerts_generated = 3
    /\ batch.response.errors =
          [list |-> <<[index |-> 1, sensorId |-> "s2", error |-> HTTP500.detail]>>]

====
